---- MODULE Spec2Model ----
(***************************************************************************)
(* Verification model of the Archytas illustration: the stepped value     *)
(* ranges (geometry/parameters), the sliced tessellation engine            *)
(* (archytas_model/sliced_tesselation) and the five construction solids    *)
(* driven by ArchytasModel.angleOapCompliment_rad.                         *)
(*                                                                         *)
(* Numbers.  A JavaScript number is modelled as a binary floating-point    *)
(* value with a SigBits-bit significand and a smallest exponent of         *)
(* -FracBits, held as an integer count of 2^-FracBits.  Every arithmetic   *)
(* operation rounds to nearest, ties to even, as IEEE 754 does; only the   *)
(* width of the significand is reduced.  NaN is a distinguished value.     *)
(*                                                                         *)
(* Angles.  The angle unit is 2.5 degrees instead of one radian, so that   *)
(* Math.PI is the number 72 and the program's 5 and 10 degree steps are    *)
(* whole numbers.  sin, acos, cos and asin are tabulated on that grid.     *)
(***************************************************************************)
EXTENDS Integers, Sequences, FiniteSets, TLC

(***************************************************************************)
(* Floating point                                                          *)
(***************************************************************************)
FracBits == 10
SigBits == 11

One == 2 ^ FracBits
NaN == -(2 ^ 30)

IsNaN(x) == x = NaN

Abs(x) == IF x < 0 THEN -x ELSE x

Sign(x) == IF x < 0 THEN -1 ELSE 1

RECURSIVE BitLen(_)
BitLen(x) == IF x = 0 THEN 0 ELSE 1 + BitLen(x \div 2)

\* Distance between neighbouring representable numbers around i (i >= 0).
Spacing(i) == IF i < 2 ^ SigBits THEN 1 ELSE 2 ^ (BitLen(i) - SigBits)

\* The representable number nearest to i + r/d  (i >= 0, 0 <= r < d).
RoundMixed(i, r, d) ==
    LET g == Spacing(i)
        m == i \div g
        lo == i - m * g
        twice == 2 * (lo * d + r)
        whole == g * d
    IN  IF twice < whole THEN m * g
        ELSE IF twice > whole THEN (m + 1) * g
        ELSE IF m % 2 = 0 THEN m * g ELSE (m + 1) * g

Num(i) == i * One

fadd(a, b) ==
    IF IsNaN(a) \/ IsNaN(b) THEN NaN
    ELSE Sign(a + b) * RoundMixed(Abs(a + b), 0, 1)

fsub(a, b) ==
    IF IsNaN(a) \/ IsNaN(b) THEN NaN
    ELSE Sign(a - b) * RoundMixed(Abs(a - b), 0, 1)

fmul(a, b) ==
    IF IsNaN(a) \/ IsNaN(b) THEN NaN
    ELSE LET x == Abs(a)
             y == Abs(b)
             low == x * (y % One)
         IN  Sign(a) * Sign(b) *
             RoundMixed(x * (y \div One) + (low \div One), low % One, One)

fdiv(a, b) ==
    IF IsNaN(a) \/ IsNaN(b) \/ b = 0 THEN NaN
    ELSE LET x == Abs(a)
             y == Abs(b)
             low == (x % y) * One
         IN  Sign(a) * Sign(b) *
             RoundMixed((x \div y) * One + (low \div y), low % y, y)

\* Math.floor, as an integer index.
Floor(a) == IF IsNaN(a) THEN NaN ELSE a \div One

\* a >= b and a <= b of JavaScript: false when either side is NaN.
Geq(a, b) == ~IsNaN(a) /\ ~IsNaN(b) /\ a >= b

Leq(a, b) == ~IsNaN(a) /\ ~IsNaN(b) /\ a <= b

(***************************************************************************)
(* Trigonometry on the 2.5 degree grid                                     *)
(***************************************************************************)
PI == Num(72)

HalfPI == fdiv(PI, Num(2))

\* Rounds a table entry, held with 16 fractional bits, to a number.
FromTable(v) ==
    LET d == (2 ^ 16) \div One
    IN  Sign(v) * RoundMixed(Abs(v) \div d, Abs(v) % d, d)

\* sin(j * 2.5 degrees) * 2^16 for j = -4 .. 76.
SinTable ==
    << -11380, -8554, -5712, -2859,
       0, 2859, 5712, 8554, 11380, 14185, 16962, 19707, 22415, 25080, 27697,
       30261, 32768, 35212, 37590, 39896, 42126, 44275, 46341, 48318, 50203,
       51993, 53684, 55273, 56756, 58131, 59396, 60547, 61584, 62503, 63303,
       63983, 64540, 64975, 65287, 65474, 65536, 65474, 65287, 64975, 64540,
       63983, 63303, 62503, 61584, 60547, 59396, 58131, 56756, 55273, 53684,
       51993, 50203, 48318, 46341, 44275, 42126, 39896, 37590, 35212, 32768,
       30261, 27697, 25080, 22415, 19707, 16962, 14185, 11380, 8554, 5712,
       2859, 0, -2859, -5712, -8554, -11380 >>

\* acos(1 - 2 sin(j * 2.5 degrees)), in angle units * 2^16, for j = 0 .. 36.
AcosTable ==
    << 0, 632035, 900246, 1110394, 1291170, 1453597, 1603279, 1743521,
       1876459, 2003567, 2125907, 2244278, 2359296, 2471446, 2581121,
       2688643, 2794278, 2898252, 3000757, 3101959, 3202002, 3301013,
       3399103, 3496371, 3592909, 3688796, 3784108, 3878912, 3973272,
       4067246, 4160889, 4254254, 4347391, 4440347, 4533169, 4625903,
       4718592 >>

Grid == -4 .. 76

OnGrid(a) == ~IsNaN(a) /\ a % One = 0 /\ a \div One \in Grid

\* The tables as numbers.
SinValues ==
    SubSeq([n \in 1 .. Len(SinTable) |-> FromTable(SinTable[n])],
           1, Len(SinTable))

AcosValues ==
    SubSeq([n \in 1 .. Len(AcosTable) |-> FromTable(AcosTable[n])],
           1, Len(AcosTable))

SinAt(j) == SinValues[j + 5]

AcosAt(j) == AcosValues[j + 1]

\* The grid index j of S for which values[j + offset] is nearest to y.
Nearest(S, values, offset, y) ==
    CHOOSE j \in S :
        \A k \in S :
            Abs(values[j + offset] - y) <= Abs(values[k + offset] - y)

Sin(a) == IF OnGrid(a) THEN SinAt(a \div One) ELSE NaN

\* 1 - 2 sin(j), the cosine of AcosAt(j).
CosArgValues ==
    SubSeq([n \in 1 .. Len(AcosTable) |->
               fsub(One, fmul(Num(2), SinAt(n - 1)))],
           1, Len(AcosTable))

CosArgAt(j) == CosArgValues[j + 1]

\* Math.acos: NaN outside [-1, 1].
Acos(y) ==
    IF IsNaN(y) \/ y > One \/ y < -One THEN NaN
    ELSE AcosAt(Nearest(0 .. 36, CosArgValues, 1, y))

Cos(a) == IF IsNaN(a) THEN NaN ELSE CosArgAt(Nearest(0 .. 36, AcosValues, 1, a))

\* Math.asin: the principal value, in [-PI/2, PI/2]; NaN outside [-1, 1].
Asin(y) ==
    IF IsNaN(y) \/ y > One \/ y < -One THEN NaN
    ELSE Num(Nearest(-4 .. 36, SinValues, 5, y))

(***************************************************************************)
(* geometry/parameters: ConstStepRange and its subclasses                  *)
(***************************************************************************)
\* new ConstStepRange(start, end, stepCount); _stepSize is fixed here.
ConstStepRange(start, end, stepCount) ==
    [ kind |-> "ConstStepRange",
      start |-> start,
      end |-> end,
      stepCount |-> stepCount,
      stepSize |-> fdiv(fsub(end, start), Num(stepCount)),
      transformedStart |-> NaN,
      transformedEnd |-> NaN ]

radRangeFromStartEndDegStepCount(start_deg, end_deg, step_count) ==
    ConstStepRange(fdiv(fmul(Num(start_deg), PI), Num(180)),
                   fdiv(fmul(Num(end_deg), PI), Num(180)),
                   step_count)

\* BaseCircleAngleRange.fromAngleOapCompliment_rad
BaseCircleFromAngleOapCompliment_rad(angle) == fmul(Num(2), angle)

BaseCircleAngleRange(angleRange) ==
    [ ConstStepRange(BaseCircleFromAngleOapCompliment_rad(angleRange.start),
                     BaseCircleFromAngleOapCompliment_rad(angleRange.end),
                     angleRange.stepCount)
      EXCEPT !.kind = "BaseCircleAngleRange" ]

\* TransverseCircleAngleRange.fromAngleOapCompliment_rad
fromAngleOapCompliment_rad(angle) ==
    Acos(fsub(One, fmul(Num(2), Sin(fsub(PI, angle)))))

\* TransverseCircleAngleRange.toAngleOapCompliment_rad
toAngleOapCompliment_rad(transverseCircleAngle) ==
    fsub(PI, Asin(fdiv(fsub(One, Cos(transverseCircleAngle)), Num(2))))

TransverseCircleAngleRange(angleRange, stepCountMultiplier) ==
    [ ConstStepRange(angleRange.start, angleRange.end,
                     angleRange.stepCount * stepCountMultiplier)
      EXCEPT !.kind = "TransverseCircleAngleRange",
             !.transformedStart = fromAngleOapCompliment_rad(angleRange.start),
             !.transformedEnd = fromAngleOapCompliment_rad(angleRange.end) ]

\* ConstStepRange.cloneAsMutable
cloneAsMutable(r) ==
    [ ConstStepRange(r.start, r.end, r.stepCount)
      EXCEPT !.kind = "MutableConstStepRange" ]

\* MutableConstStepRange.setStartEnd
setStartEnd(r, start, end) == [r EXCEPT !.start = start, !.end = end]

\* ConstStepRange.atStep
ConstAtStep(r, stepIdx) == fadd(r.start, fmul(r.stepSize, Num(stepIdx)))

atStep(r, stepIdx) ==
    IF r.kind = "TransverseCircleAngleRange"
    THEN fromAngleOapCompliment_rad(ConstAtStep(r, stepIdx))
    ELSE ConstAtStep(r, stepIdx)

stepSize(r, stepIdx) ==
    IF r.kind = "TransverseCircleAngleRange"
    THEN fsub(atStep(r, stepIdx + 1), atStep(r, stepIdx))
    ELSE r.stepSize

includes(r, value) ==
    IF r.kind = "TransverseCircleAngleRange"
    THEN Geq(value, r.transformedStart) /\ Leq(value, r.transformedEnd)
    ELSE Geq(value, r.start) /\ Leq(value, r.end)

\* ConstStepRange.lastIncludedStepIdx
ConstLastIncludedStepIdx(r, value) ==
    Floor(fdiv(fsub(value, r.start), r.stepSize))

lastIncludedStepIdx(r, value) ==
    IF r.kind = "TransverseCircleAngleRange"
    THEN ConstLastIncludedStepIdx(r, toAngleOapCompliment_rad(value))
    ELSE ConstLastIncludedStepIdx(r, value)

(***************************************************************************)
(* The ranges the program builds                                           *)
(***************************************************************************)
\* ArchytasModel: angleOapComplimentRange, 5 degree steps over 0 .. 90.
AngleStepCount == 18

angleOapComplimentRange ==
    radRangeFromStartEndDegStepCount(0, 90, AngleStepCount)

\* TorusConfiguration.poloidalAngle_rad, poloidalAngleStepCount = 180 / 5.
PoloidalAngleStepCount == 36

poloidalAngle_rad == ConstStepRange(Num(0), PI, PoloidalAngleStepCount)

\* ConeConfiguration.oapAngleCompliment_rad, aopAngleStepCount / 2 steps.
ConeStepCount == 9

coneOapAngleCompliment_rad ==
    radRangeFromStartEndDegStepCount(0, 90, ConeStepCount)

baseCircleCentralAngle == BaseCircleAngleRange(angleOapComplimentRange)

\* stepCountMultiplier = 10
StepCountMultiplier == 10

transverseCircleCentralAngle_rad ==
    TransverseCircleAngleRange(angleOapComplimentRange, StepCountMultiplier)

(***************************************************************************)
(* archytas_model/sliced_tesselation: vertices of the sliced solids        *)
(*                                                                         *)
(* A vertex (position and normal) is held symbolically: kind names the     *)
(* point of the generatrix, at is the slice parameter the generatrix was   *)
(* calculated for, i the index along the generatrix and step the step      *)
(* size that entered the normal of the cone's apex vertex.                 *)
(***************************************************************************)
Solids == {"torus", "cylinder", "cone"}

Vertex(kind, at, i, step) == [kind |-> kind, at |-> at, i |-> i, step |-> step]

\* A Float32Array slot as allocated: all coordinates zero.
ZeroVertex == Vertex("zero", 0, 0, 0)

\* SliceVertexCalculator.sliceParameterRange
sliceParameterRange(s) ==
    CASE s = "torus" -> poloidalAngle_rad
      [] s = "cylinder" -> angleOapComplimentRange
      [] s = "cone" -> coneOapAngleCompliment_rad

\* The range each solid's setter validates against:
\* config.toroidalAngle_rad, config.angle_rad, config.oapAngleCompliment_rad.
configRange(s) ==
    CASE s = "torus" -> angleOapComplimentRange
      [] s = "cylinder" -> angleOapComplimentRange
      [] s = "cone" -> coneOapAngleCompliment_rad

\* SliceVertexCalculator.maxVertexCount
maxVertexCount(s) ==
    CASE s = "torus" -> poloidalAngle_rad.stepCount
      [] s = "cylinder" -> 2
      [] s = "cone" -> 2

\* SliceVertexCalculator.startVertexIndex
startVertexIndex(s, sliceIdx) ==
    CASE s = "torus" -> 1 + maxVertexCount(s) * sliceIdx
      [] s = "cylinder" -> maxVertexCount(s) * sliceIdx
      [] s = "cone" -> maxVertexCount(s) * sliceIdx

\* The default of GeneratrixVertexCalculator.calculateVertices's last argument.
DefaultStepSize(s, sliceParameter) ==
    stepSize(sliceParameterRange(s),
             lastIncludedStepIdx(sliceParameterRange(s), sliceParameter))

\* SliceVertexCalculator.calculateVertices: the vertices of one generatrix.
sliceVertices(s, sliceParameter, stepSize_rad) ==
    CASE s = "torus" ->
           [i \in 1 .. sliceParameterRange(s).stepCount |->
               Vertex("tube", sliceParameter, i - 1, 0)]
      [] s = "cylinder" ->
           << Vertex("bottom", sliceParameter, 0, 0),
              Vertex("top", sliceParameter, 0, 0) >>
      [] s = "cone" ->
           << Vertex("apex", sliceParameter, 0, stepSize_rad),
              Vertex("base", sliceParameter, 0, 0) >>

\* A vertex buffer is the sequence of its slots: slot j of the typed arrays
\* is element j + 1.
Slot(buf, j) == buf[j + 1]

\* VertexWriter.writeVertex for consecutive slots from startIdx on; a typed
\* array drops writes outside its length.
WriteVertices(buf, startIdx, vs) ==
    IF startIdx >= Len(buf) THEN buf
    ELSE LET k == IF Len(vs) <= Len(buf) - startIdx
                  THEN Len(vs) ELSE Len(buf) - startIdx
         IN  SubSeq(buf, 1, startIdx) \o SubSeq(vs, 1, k)
                 \o SubSeq(buf, startIdx + k + 1, Len(buf))

\* VertexCalculator.sliceCount
sliceCount(s) == sliceParameterRange(s).stepCount + 1

\* VertexCalculator.vertexCount
vertexCount(s) == startVertexIndex(s, sliceCount(s) + 1)

\* TorusVertexCalculator.calculateSharedVertices (none for the others).
sharedVertices(s) ==
    IF s = "torus" THEN << Vertex("center", 0, 0, 0) >> ELSE << >>

\* VertexCalculator.calculateVertices: its loop leaves in slot j the shared
\* vertex j, or vertex i of the generatrix at step sliceIdx, where
\* j = startVertexIndex(sliceIdx) + i and sliceIdx < sliceCount; the slots
\* past the last calculated generatrix stay as allocated.
calculateVertices(s, j) ==
    LET first == startVertexIndex(s, 0)
        sliceIdx == (j - first) \div maxVertexCount(s)
        i == (j - first) % maxVertexCount(s)
        p == atStep(sliceParameterRange(s), sliceIdx)
    IN  IF j < first THEN sharedVertices(s)[j + 1]
        ELSE IF sliceIdx < sliceCount(s)
        THEN sliceVertices(s, p, DefaultStepSize(s, p))[i + 1]
        ELSE ZeroVertex

\* SurfaceVertexCoords constructor: allocate vertexCount slots, then
\* VertexCalculator.calculateVertices.
NewCoords(s) ==
    SubSeq([n \in 1 .. vertexCount(s) |-> calculateVertices(s, n - 1)],
           1, vertexCount(s))

torusCoords == NewCoords("torus")

cylinderCoords == NewCoords("cylinder")

coneCoords == NewCoords("cone")

\* Slot j of the vertex buffer of s, which nothing writes to once it is
\* constructed.
coords(s, j) == calculateVertices(s, j)

\* ConnectingSliceVertexCalculator.sharedVertexCount, and the cone's override.
sharedVertexCount(s) ==
    IF s = "cone" THEN 0 ELSE startVertexIndex(s, 0)

\* A connecting slice buffer with room for one generatrix only.
connectingVertexCount_oneGeneratrix(s) ==
    IF s = "cone" THEN 2 ELSE sharedVertexCount(s) + maxVertexCount(s)

\* ConnectingSliceVertexCalculator.vertexCount, and the cone's override.
connectingVertexCount(s) ==
    IF s = "cone" THEN 4 ELSE sharedVertexCount(s) + 2 * maxVertexCount(s)

\* ConnectingSliceVertexCalculator.copyVerticesFromBase; a read past the end
\* of the source typed array yields undefined, stored as NaN coordinates.
copyVerticesFromBase(s, srcStartIdx, srcEndIdx, buf, destStartIdx) ==
    WriteVertices(buf, destStartIdx,
        [n \in 1 .. srcEndIdx - srcStartIdx |->
            IF srcStartIdx + n - 1 >= 0
               /\ srcStartIdx + n - 1 < vertexCount(s)
            THEN coords(s, srcStartIdx + n - 1)
            ELSE Vertex("undefined", NaN, 0, 0)])

\* ConnectingSliceVertexCoords constructor: allocate, then the calculator's
\* calculateVertices (shared vertices only; nothing for the cone).
NewConnectingSliceCoords(s) ==
    LET zero == [j \in 1 .. connectingVertexCount(s) |-> ZeroVertex]
    IN  IF s = "cone" THEN zero
        ELSE copyVerticesFromBase(s, 0, sharedVertexCount(s), zero, 0)

\* ConnectingSliceVertexCalculator.updateVertices
BaseUpdateVertices(s, sliceIdx, sliceParameter, buf, vertexStartIdx) ==
    WriteVertices(
        copyVerticesFromBase(s, startVertexIndex(s, sliceIdx),
                             startVertexIndex(s, sliceIdx + 1),
                             buf, vertexStartIdx),
        vertexStartIdx + maxVertexCount(s),
        sliceVertices(s, sliceParameter, DefaultStepSize(s, sliceParameter)))

\* ConeConnectingSliceVertexCalculator.updateVertices
ConeUpdateVertices(sliceIdx, sliceParameter, buf, vertexStartIdx) ==
    LET parameterAtSlice == atStep(sliceParameterRange("cone"), sliceIdx)
    IN  WriteVertices(
            WriteVertices(buf, vertexStartIdx,
                sliceVertices("cone", sliceParameter,
                              DefaultStepSize("cone", sliceParameter))),
            vertexStartIdx + 2,
            sliceVertices("cone", parameterAtSlice,
                          fsub(sliceParameter, parameterAtSlice)))

\* An update that adds the generatrix at the new value to the buffer and
\* keeps those of the earlier values.
updateVertices_appending(s, sliceIdx, sliceParameter, buf, vertexStartIdx) ==
    buf \o sliceVertices(s, sliceParameter,
                         DefaultStepSize(s, sliceParameter))

\* calculator.updateVertices: the cone's override, or the base class's.
updateVertices(s, sliceIdx, sliceParameter, buf, vertexStartIdx) ==
    IF s = "cone"
    THEN ConeUpdateVertices(sliceIdx, sliceParameter, buf, vertexStartIdx)
    ELSE BaseUpdateVertices(s, sliceIdx, sliceParameter, buf, vertexStartIdx)

\* The slots VertexWriter.writeVertex is called for when the vertices vs
\* are written from startIdx on.
writeVertex(startIdx, vs) == {startIdx + n - 1 : n \in 1 .. Len(vs)}

\* The slots VertexCalculator.calculateVertices writes: the shared vertices,
\* then one generatrix per slice.
calculateVerticesWrites(s) ==
    writeVertex(0, sharedVertices(s))
        \cup UNION {writeVertex(startVertexIndex(s, sliceIdx),
                                sliceVertices(s,
                                    atStep(sliceParameterRange(s), sliceIdx),
                                    0))
                       : sliceIdx \in 0 .. sliceCount(s) - 1}

\* The slots ConnectingSliceVertexCalculator.copyVerticesFromBase writes.
copyVerticesFromBaseWrites(srcStartIdx, srcEndIdx, destStartIdx) ==
    {destStartIdx + n - 1 : n \in 1 .. srcEndIdx - srcStartIdx}

\* The slots the construction of a ConnectingSliceVertexCoords writes.
connectingCalculateVerticesWrites(s) ==
    IF s = "cone" THEN {}
    ELSE copyVerticesFromBaseWrites(0, sharedVertexCount(s), 0)

\* The slots calculator.updateVertices writes.
updateVerticesWrites(s, sliceIdx, sliceParameter, vertexStartIdx) ==
    IF s = "cone"
    THEN writeVertex(vertexStartIdx, sliceVertices(s, sliceParameter, 0))
             \cup writeVertex(vertexStartIdx + 2,
                              sliceVertices(s, sliceParameter, 0))
    ELSE copyVerticesFromBaseWrites(startVertexIndex(s, sliceIdx),
                                    startVertexIndex(s, sliceIdx + 1),
                                    vertexStartIdx)
             \cup writeVertex(vertexStartIdx + maxVertexCount(s),
                              sliceVertices(s, sliceParameter, 0))

Geometries == {"surface", "wireframe"}

\* IndexedGeometrySliceVertexCalculator.vertexIdxCount of the surface and
\* wireframe step calculators of each solid.
vertexIdxCount(s, g) ==
    CASE s = "torus" /\ g = "surface" -> (1 + 2 * (maxVertexCount(s) - 1)) * 3
      [] s = "torus" /\ g = "wireframe" -> maxVertexCount(s) * 2
      [] s = "cylinder" /\ g = "surface" -> 2 * (maxVertexCount(s) - 1) * 3
      [] s = "cylinder" /\ g = "wireframe" -> (maxVertexCount(s) - 1) * 2
      [] s = "cone" /\ g = "surface" -> 1 * 3
      [] s = "cone" /\ g = "wireframe" -> (maxVertexCount(s) - 1) * 2

\* IndexedGeometrySliceVertexCalculator.startVertexIndex
indexStartVertexIndex(s, g, sliceIdx) == vertexIdxCount(s, g) * sliceIdx

\* SurfaceAngleStepCalculator.calculateVertexIndices of the cone: the slots
\* of the one triangle of slice sliceIdx.
calculateVertexIndices(sliceIdx) ==
    << startVertexIndex("cone", sliceIdx),
       startVertexIndex("cone", sliceIdx + 1) + 1,
       startVertexIndex("cone", sliceIdx) + 1 >>

\* IndexedGeometry.calculatedSliceCount
calculatedSliceCount(s) == sliceCount(s)

\* How often the loop of a step calculator's calculateVertexIndices runs
\* for slice sliceIdx.
indexLoopCount(s, sliceIdx) ==
    LET n == startVertexIndex(s, sliceIdx + 1) - 1
                 - startVertexIndex(s, sliceIdx)
    IN  IF n > 0 THEN n ELSE 0

\* The number of indices calculateVertexIndices of the step calculator of
\* (s, g) stores for slice sliceIdx.
storedIndexCount(s, g, sliceIdx) ==
    CASE s = "torus" /\ g = "surface" -> 6 * indexLoopCount(s, sliceIdx) + 3
      [] s = "torus" /\ g = "wireframe" -> 2 * indexLoopCount(s, sliceIdx) + 2
      [] s = "cylinder" /\ g = "surface" -> 6 * indexLoopCount(s, sliceIdx)
      [] s = "cylinder" /\ g = "wireframe" -> 2 * indexLoopCount(s, sliceIdx)
      [] s = "cone" /\ g = "surface" -> 3
      [] s = "cone" /\ g = "wireframe" -> 2 * indexLoopCount(s, sliceIdx)

\* The loop the surface step calculators of torus and cylinder share: two
\* triangles between vertex startIdx + i of one slice and vertex
\* endIdx + i of the next, for each of the n runs.
surfaceLoop(startIdx, endIdx, n) ==
    [m \in 1 .. 6 * n |->
        LET i == (m - 1) \div 6
        IN  CASE (m - 1) % 6 = 0 -> startIdx + i
              [] (m - 1) % 6 = 1 -> endIdx + i
              [] (m - 1) % 6 = 2 -> endIdx + i + 1
              [] (m - 1) % 6 = 3 -> endIdx + i + 1
              [] (m - 1) % 6 = 4 -> startIdx + i + 1
              [] (m - 1) % 6 = 5 -> startIdx + i]

\* The loop of the wireframe step calculators: one line segment from
\* vertex startIdx + i to the next, for each of the n runs.
wireframeLoop(startIdx, n) ==
    [m \in 1 .. 2 * n |-> startIdx + ((m - 1) \div 2) + ((m - 1) % 2)]

\* calculateVertexIndices of the step calculator of (s, g): the vertex
\* indices it stores for slice sliceIdx, in order.
sliceVertexIndices(s, g, sliceIdx) ==
    LET startIdx == startVertexIndex(s, sliceIdx)
        endIdx == startVertexIndex(s, sliceIdx + 1)
        n == indexLoopCount(s, sliceIdx)
    IN  CASE s = "torus" /\ g = "surface" ->
               surfaceLoop(startIdx, endIdx, n)
                   \o << 0, endIdx + n - 1, startIdx + n - 1 >>
          [] s = "torus" /\ g = "wireframe" ->
               wireframeLoop(startIdx, n) \o << endIdx - 1, 0 >>
          [] s = "cylinder" /\ g = "surface" ->
               surfaceLoop(startIdx, endIdx, n)
          [] s = "cone" /\ g = "surface" -> calculateVertexIndices(sliceIdx)
          [] OTHER -> wireframeLoop(startIdx, n)

\* The vertex slots the indices of the draw range from drawStart on, of
\* drawCount indices, refer to: the index buffer holds the indices of the
\* calculated slices.
drawnVertexSlots(s, g, drawStart, drawCount) ==
    UNION {{sliceVertexIndices(s, g, sliceIdx)[n] :
                n \in {m \in 1 .. Len(sliceVertexIndices(s, g, sliceIdx)) :
                    /\ indexStartVertexIndex(s, g, sliceIdx) + m - 1
                           >= drawStart
                    /\ indexStartVertexIndex(s, g, sliceIdx) + m - 1
                           < drawStart + drawCount}}
               : sliceIdx \in 0 .. calculatedSliceCount(s) - 1}

\* The slots of triangleVertexIndices IndexedGeometry.calculateVertexIndices
\* writes for a geometry of slices calculated slices.
calculateVertexIndicesWrites(s, g, slices) ==
    UNION {{indexStartVertexIndex(s, g, sliceIdx) + n - 1
                : n \in 1 .. storedIndexCount(s, g, sliceIdx)}
               : sliceIdx \in 0 .. slices - 1}

\* IndexedGeometry.vertexCount: the length of triangleVertexIndices.
indexedVertexCount(s, g, slices) == indexStartVertexIndex(s, g, slices)

\* The draw range THREE.BufferGeometry starts with: everything.
Infinity == 2 ^ 30

\* IndexedGeometry as constructed.
NewIndexedGeometry(s, g) ==
    [ startSliceIndex |-> 0,
      endSliceIndex |-> NaN,
      drawStart |-> 0,
      drawCount |-> Infinity ]

(***************************************************************************)
(* geometry/vertices: matrices, vectors and the two cameras                *)
(*                                                                         *)
(* A matrix is the tuple of its rows, a vector the tuple of its            *)
(* components; indices are the code's plus one.                            *)
(***************************************************************************)
\* new Matrix3(...): Matrix3Base's constructor takes no parameter and calls
\* super() without one, so whatever is handed to it, the result is the
\* identity matrix THREE.Matrix3 starts as.
NewMatrix3 == << << One, 0, 0 >>, << 0, One, 0 >>, << 0, 0, One >> >>

\* new Matrix3().makeScale(sx, sy)
makeScale(sx, sy) == << << sx, 0, 0 >>, << 0, sy, 0 >>, << 0, 0, One >> >>

\* The smallest magnitude told apart from 0 (1e-15 in the code): one unit
\* of the last place.
EPS == 1

\* v.applyAffine(t) of a 2-vector: each component is stored as soon as it
\* is calculated, so that the second row reads the new first component.
applyAffine(v, t) ==
    LET w == fadd(fadd(fadd(0, fmul(v[1], t[3][1])), fmul(v[2], t[3][2])), t[3][3])
        x == fdiv(fadd(fadd(fadd(0, fmul(v[1], t[1][1])), fmul(v[2], t[1][2])), t[1][3]), w)
        y == fdiv(fadd(fadd(fadd(0, fmul(x, t[2][1])), fmul(v[2], t[2][2])), t[2][3]), w)
    IN  << x, y >>

\* a.vectorDot(b) of 3-vectors
vectorDot(a, b) ==
    fadd(fadd(fadd(0, fmul(a[1], b[1])), fmul(a[2], b[2])), fmul(a[3], b[3]))

\* a.subtract(b)
subtract(a, b) == [i \in DOMAIN a |-> fsub(a[i], b[i])]

\* a.multiplyScalar(s)
multiplyScalar(a, s) == [i \in DOMAIN a |-> fmul(s, a[i])]

\* a.addScaled(b, s)
addScaled(a, b, s) == [i \in DOMAIN a |-> fadd(a[i], fmul(s, b[i]))]

\* PlaneCamera.validateCameraTransform: does the constructor accept t?
validateCameraTransform(t) ==
    /\ t[3][1] = 0
    /\ t[3][2] = 0
    /\ ~(Abs(t[3][3]) < EPS)

\* new PlaneCamera(t), for a transform the constructor accepts
PlaneCamera(t) ==
    [ kind |-> "PlaneCamera",
      worldToProjectionPlaneTransform |-> t,
      projectionPlaneToWorldTransform |-> NewMatrix3 ]

\* new ProjectionPlaneCamera(worldPosition)
ProjectionPlaneCamera(worldPosition) ==
    [ kind |-> "ProjectionPlaneCamera",
      worldPosition |-> worldPosition,
      xHat |-> << One, 0, 0 >>,
      yHat |-> << 0, One, 0 >>,
      zHat |-> << 0, 0, One >>,
      focalDistance |-> One ]

\* camera.flipXAxis(), flipYAxis(), flipZAxis(), setFocalDistance(value)
flipXAxis(c) == [c EXCEPT !.xHat = multiplyScalar(@, Num(-1))]

flipYAxis(c) == [c EXCEPT !.yHat = multiplyScalar(@, Num(-1))]

flipZAxis(c) == [c EXCEPT !.zHat = multiplyScalar(@, Num(-1))]

setFocalDistance(c, value) == [c EXCEPT !.focalDistance = value]

\* ProjectionPlaneCamera.getProjectionPlaneCenter
getProjectionPlaneCenter(c) ==
    addScaled(c.worldPosition, c.zHat, -c.focalDistance)

\* ProjectionPlaneCamera.project(p)
projectPerspective(c, p) ==
    LET pointFromEyePoint == subtract(p, c.worldPosition)
        pointFromEyePointZ == -vectorDot(pointFromEyePoint, c.zHat)
        scaled == multiplyScalar(pointFromEyePoint,
                                 fdiv(c.focalDistance, pointFromEyePointZ))
        onPlane == addScaled(scaled, c.zHat, c.focalDistance)
    IN  << vectorDot(onPlane, c.xHat), vectorDot(onPlane, c.yHat),
           vectorDot(onPlane, c.zHat) >>

\* a < b and a > b as JavaScript evaluates them: false when either is NaN.
Lt(a, b) == ~IsNaN(a) /\ ~IsNaN(b) /\ a < b

Gt(a, b) == ~IsNaN(a) /\ ~IsNaN(b) /\ a > b

MathAbs(a) == IF IsNaN(a) THEN NaN ELSE Abs(a)

\* ProjectionPlaneCamera.minDistanceFromCamera, 0.1
minDistanceFromCamera == fdiv(Num(1), Num(10))

\* pointFromEyePointZ of ProjectionPlaneCamera.project(p)
pointFromEyePointZ(c, p) == -vectorDot(subtract(p, c.worldPosition), c.zHat)

\* A project that warns of points behind the camera only.
projectWarnings_behindOnly(c, p) ==
    IF c.kind = "PlaneCamera" \/ ~Lt(pointFromEyePointZ(c, p), 0) THEN {}
    ELSE {"behind the camera"}

\* The console.warn calls of camera.project(p): PlaneCamera.project makes
\* none.
projectWarnings(c, p) ==
    IF c.kind = "PlaneCamera" THEN {}
    ELSE {w \in {"behind the camera", "too close to the camera"} :
             \/ w = "behind the camera" /\ Lt(pointFromEyePointZ(c, p), 0)
             \/ /\ w = "too close to the camera"
                /\ Lt(MathAbs(pointFromEyePointZ(c, p)), minDistanceFromCamera)}

\* camera.project(p)
project(c, p) ==
    IF c.kind = "PlaneCamera"
    THEN applyAffine(p, c.worldToProjectionPlaneTransform)
    ELSE projectPerspective(c, p)

\* camera.projectionToWorld(q, out)
projectionToWorld(c, q) ==
    IF c.kind = "PlaneCamera"
    THEN applyAffine(q, c.projectionPlaneToWorldTransform)
    ELSE addScaled(addScaled(addScaled(getProjectionPlaneCenter(c),
                                       c.xHat, q[1]), c.yHat, q[2]), c.zHat, q[3])

(***************************************************************************)
(* geometry/plane_objects: the elliptical arc projector                    *)
(***************************************************************************)
\* -a, Math.abs(a), Math.max(a, b), Math.min(a, b)
Minus(a) == IF IsNaN(a) THEN NaN ELSE -a

MathMax(a, b) == IF IsNaN(a) \/ IsNaN(b) THEN NaN ELSE IF a > b THEN a ELSE b

MathMin(a, b) == IF IsNaN(a) \/ IsNaN(b) THEN NaN ELSE IF a < b THEN a ELSE b

\* The largest r of lo .. hi with r * r <= n.
RECURSIVE ISqrt(_, _, _)
ISqrt(n, lo, hi) ==
    IF lo >= hi THEN lo
    ELSE LET mid == (lo + hi + 1) \div 2
         IN  IF mid * mid <= n THEN ISqrt(n, mid, hi) ELSE ISqrt(n, lo, mid - 1)

\* Math.sqrt, correctly rounded; NaN for a negative number.
Sqrt(x) ==
    IF IsNaN(x) \/ x < 0 THEN NaN
    ELSE LET n == x * One
             r == ISqrt(n, 0, 2 ^ 16)
         IN  IF r < 2 ^ SigBits
             THEN IF n > r * r + r THEN r + 1 ELSE r
             ELSE RoundMixed(r, IF n > r * r THEN 1 ELSE 0, 3)

\* Math.cos and Math.sin on the grid from 0 to PI.
GridCos(a) ==
    IF ~OnGrid(a) THEN NaN
    ELSE IF a <= HalfPI THEN Sin(a + HalfPI) ELSE Minus(Sin(a - HalfPI))

\* sin and cos of k grid steps for any integer k, as table entries.
SinOfStep(k) ==
    LET m == k % 144
    IN  IF m <= 72 THEN SinTable[m + 5] ELSE -SinTable[m - 72 + 5]

CosOfStep(k) == SinOfStep(k + 36)

\* The step of k .. 72 whose direction is nearest to that of (x, y), best
\* being the nearest of the steps before k.
RECURSIVE NearestStep(_, _, _, _)
NearestStep(x, y, k, best) ==
    IF k > 72 THEN best
    ELSE IF x * CosOfStep(k) + y * SinOfStep(k) >
                x * CosOfStep(best) + y * SinOfStep(best)
         THEN NearestStep(x, y, k + 1, k)
         ELSE NearestStep(x, y, k + 1, best)

\* Math.atan2(y, x): the grid angle of (-PI, PI] whose direction is nearest
\* to that of (x, y); 0 for the zero vector.
Atan2(y, x) ==
    IF IsNaN(y) \/ IsNaN(x) THEN NaN
    ELSE IF x = 0 /\ y = 0 THEN 0
    ELSE CHOOSE a \in {Num(NearestStep(p[2], p[1], -70, -71)) : p \in {<< y, x >>}} : TRUE

\* The sum the loops of multiply, vectorDot and distanceTo accumulate:
\* 0 + a[1] * b[1] + ... + a[n] * b[n], added in that order.
RECURSIVE SumOfProducts(_, _, _)
SumOfProducts(a, b, n) ==
    IF n = 0 THEN 0
    ELSE fadd(SumOfProducts(a, b, n - 1), fmul(a[n], b[n]))

\* a.vectorDot(b) for vectors of any dimension
dotOf(a, b) == SumOfProducts(a, b, Len(a))

\* m.transposed()
transposed(m) == [j \in 1 .. Len(m[1]) |-> [i \in 1 .. Len(m) |-> m[i][j]]]

\* a.multiply(b, out) for matrices whose dimensions agree
multiply(a, b) ==
    [i \in 1 .. Len(a) |->
        [j \in 1 .. Len(b[1]) |-> SumOfProducts(a[i], transposed(b)[j], Len(b))]]

\* a.multiply(v, out) for a column vector v
multiplyVector(a, v) == [i \in 1 .. Len(a) |-> SumOfProducts(a[i], v, Len(v))]

\* a.add(b)
add(a, b) == [i \in DOMAIN a |-> fadd(a[i], b[i])]

\* m.multiplyScalar(s) for a matrix
multiplyMatrixScalar(m, s) == [i \in DOMAIN m |-> multiplyScalar(m[i], s)]

\* a.distanceTo(b)
distanceTo(a, b) == Sqrt(dotOf(subtract(a, b), subtract(a, b)))

\* a.clone().vectorCross(b) of 3-vectors
vectorCross(a, b) ==
    [i \in 1 .. 3 |->
        fsub(fmul(a[(i % 3) + 1], b[((i + 1) % 3) + 1]),
             fmul(a[((i + 1) % 3) + 1], b[(i % 3) + 1]))]

\* m.setFromColumnVectors(x, y, z) and m.setFromColumnVectors(x, y)
setFromColumnVectors3(x, y, z) == [i \in 1 .. 3 |-> << x[i], y[i], z[i] >>]

setFromColumnVectors2(x, y) == [i \in 1 .. 3 |-> << x[i], y[i] >>]

\* v.normalizeColumnVectors() of one column
normalized(v) == [i \in DOMAIN v |-> fdiv(v[i], Sqrt(dotOf(v, v)))]

\* Matrix2Base.getEigenValues
getEigenValues(m) ==
    LET b == fsub(Minus(m[1][1]), m[2][2])
        c == fsub(fmul(m[1][1], m[2][2]), fmul(m[2][1], m[1][2]))
        s == Sqrt(fsub(fmul(b, b), fmul(Num(4), c)))
    IN  << fdiv(fsub(Minus(b), s), Num(2)), fdiv(fadd(Minus(b), s), Num(2)) >>

\* Matrix2Base.getEigenvectorForEigenvalue: the column it writes
getEigenvectorForEigenvalue(m, eigenvalue) ==
    LET first_v_x == Minus(m[1][2])
        first_v_y == fsub(m[1][1], eigenvalue)
        second_v_x == fsub(m[2][2], eigenvalue)
        second_v_y == Minus(m[2][1])
    IN  IF Gt(MathMax(MathAbs(first_v_x), MathAbs(first_v_y)),
              MathMax(MathAbs(second_v_x), MathAbs(second_v_y)))
        THEN << first_v_x, first_v_y >>
        ELSE << second_v_x, second_v_y >>

\* Matrix2Base.invert: the main diagonal is swapped and divided by the
\* determinant; element (0,1) becomes -m10 / det and (1,0) becomes -m01 / det.
invert(m) ==
    LET det == fsub(fmul(m[1][1], m[2][2]), fmul(m[1][2], m[2][1]))
    IN  << << fdiv(m[2][2], det), fdiv(Minus(m[2][1]), det) >>,
           << fdiv(Minus(m[1][2]), det), fdiv(m[1][1], det) >> >>

\* MatrixFactory.create(rowCount, columnCount) and new Matrix2(...): a matrix
\* is its two counts and its components array, column after column.  An
\* element never set reads as undefined, which arithmetic turns into NaN.
MatrixImpl(rowCount, columnCount, components) ==
    [ rowCount |-> rowCount, columnCount |-> columnCount, components |-> components ]

NewMatrixImpl(rowCount, columnCount) ==
    MatrixImpl(rowCount, columnCount, [k \in 1 .. rowCount * columnCount |-> NaN])

\* MatrixImplBase.getElement and Matrix2Base.getElement; an index past the
\* end of the array reads undefined.
getElement(m, rowIndex, columnIndex) ==
    LET k == columnIndex * m.rowCount + rowIndex
    IN  IF k < Len(m.components) THEN m.components[k + 1] ELSE NaN

\* MatrixImplBase.setElement and Matrix2Base.setElement; a store past the end
\* of the array lengthens it.
setElement(m, rowIndex, columnIndex, value) ==
    LET k == columnIndex * m.rowCount + rowIndex
    IN  [m EXCEPT !.components =
            [i \in 1 .. MathMax(k + 1, Len(m.components)) |->
                IF i = k + 1 THEN value
                ELSE IF i <= Len(m.components) THEN m.components[i] ELSE NaN]]

\* new MatrixColumnAsVector(matrix, columnIdx): a view is its matrix and
\* its column index; its columnCount is 1.
MatrixColumnAsVector(matrix, columnIdx) ==
    [ matrix |-> matrix, columnIdx |-> columnIdx, columnCount |-> 1,
      componentCount |-> matrix.rowCount ]

getComponent(view, componentIndex) ==
    getElement(view.matrix, componentIndex, view.columnIdx)

\* MatrixColumnAsVectorBase.setComponent: the matrix of the view after it.
setComponent(view, componentIndex, value) ==
    setElement(view.matrix, componentIndex, view.columnCount, value)

\* The sum the inner loop of dot and multiply accumulates for the element at
\* (rowI, colI), innerI being the loop's bound.
RECURSIVE innerSum(_, _, _, _, _)
innerSum(this, multiplicand, rowI, colI, innerI) ==
    IF innerI = 0 THEN 0
    ELSE fadd(innerSum(this, multiplicand, rowI, colI, innerI - 1),
              fmul(getElement(this, rowI, innerI - 1),
                   getElement(multiplicand, innerI - 1, colI)))

\* The two outer loops of dot and multiply, n counting the elements still to
\* store: out_result after them.
RECURSIVE productLoops(_, _, _, _)
productLoops(this, multiplicand, out_result, n) ==
    IF n = 0 THEN out_result
    ELSE LET rowI == (n - 1) \div multiplicand.columnCount
             colI == (n - 1) % multiplicand.columnCount
         IN  setElement(productLoops(this, multiplicand, out_result, n - 1), rowI, colI,
                        innerSum(this, multiplicand, rowI, colI, this.columnCount))

\* AddBaseMatrixMethods.dot: whether it throws, and out_result after it.
matrixDot(this, multiplicand, out_result) ==
    [ threw |-> FALSE,
      result |-> productLoops(this, multiplicand, out_result,
                              this.rowCount * multiplicand.columnCount) ]

\* AddBaseMatrixMethods.multiply: whether it throws, and out_result after it.
matrixMultiply(this, rightHandMultiplicand, out_result) ==
    IF \/ ~(this.columnCount = rightHandMultiplicand.rowCount)
       \/ ~(this.rowCount = out_result.rowCount)
       \/ ~(rightHandMultiplicand.columnCount = out_result.columnCount)
    THEN [ threw |-> TRUE, result |-> out_result ]
    ELSE [ threw |-> FALSE,
           result |-> productLoops(this, rightHandMultiplicand, out_result,
                                   this.rowCount * rightHandMultiplicand.columnCount) ]

\* The loops of add, n counting the elements still to store.
RECURSIVE addLoops(_, _, _)
addLoops(this, addend, n) ==
    IF n = 0 THEN this
    ELSE LET rowI == (n - 1) \div this.columnCount
             colI == (n - 1) % this.columnCount
         IN  setElement(addLoops(this, addend, n - 1), rowI, colI,
                        fadd(getElement(this, rowI, colI),
                             getElement(addend, rowI, colI)))

\* AddBaseMatrixMethods.add: whether it throws, and this after it.
matrixAdd(this, addend) ==
    [ threw |-> FALSE,
      result |-> addLoops(this, addend, this.rowCount * this.columnCount) ]

\* A 2 by 2 matrix as the tuple of its rows, and back.
rowsOf(m) ==
    << << getElement(m, 0, 0), getElement(m, 0, 1) >>,
       << getElement(m, 1, 0), getElement(m, 1, 1) >> >>

Matrix2(m00, m01, m10, m11) == MatrixImpl(2, 2, << m00, m10, m01, m11 >>)

\* m.clone().invert() of a Matrix2
matrixInvert(this) ==
    LET inverse == invert(rowsOf(this))
    IN  [ threw |-> FALSE,
          result |-> Matrix2(inverse[1][1], inverse[1][2], inverse[2][1], inverse[2][2]) ]

\* The parameter objects of an EllipticalArc: config is what the arc was
\* constructed with, calculated is its _calculatedConfig.  A parameter set
\* holds its vectors and its angular range by reference.
ConfigObjects ==
    [ origin |-> "config.origin",
      plane |-> [ id |-> "config.plane",
                  xHat |-> "config.plane.xHat",
                  yHat |-> "config.plane.yHat" ],
      circularAngle_rad |-> "config.circularAngle_rad" ]

CalculatedObjects ==
    [ origin |-> "calculated.origin",
      plane |-> [ id |-> "calculated.plane",
                  xHat |-> "calculated.plane.xHat",
                  yHat |-> "calculated.plane.yHat" ],
      circularAngle_rad |-> "calculated.circularAngle_rad" ]

\* The range the input parameters hold.
InputRange == ConfigObjects.circularAngle_rad

\* The range projectNonPerspective makes with cloneAsMutable.
ClonedRange == "cloneAsMutable()"

Unallocated == << >>

\* new EllipticalArc(config, props): the heap, the config and the
\* calculated config made of clones.
NewEllipticalArc(origin, xHat, yHat, circularAngle_rad, semiXAxis, semiYAxis) ==
    [ heap |->
        [ id \in { ConfigObjects.origin, ConfigObjects.plane.xHat,
                   ConfigObjects.plane.yHat, ConfigObjects.circularAngle_rad,
                   CalculatedObjects.origin, CalculatedObjects.plane.xHat,
                   CalculatedObjects.plane.yHat,
                   CalculatedObjects.circularAngle_rad, ClonedRange } |->
            CASE id \in { ConfigObjects.origin, CalculatedObjects.origin } -> origin
              [] id \in { ConfigObjects.plane.xHat, CalculatedObjects.plane.xHat } -> xHat
              [] id \in { ConfigObjects.plane.yHat, CalculatedObjects.plane.yHat } -> yHat
              [] id = ConfigObjects.circularAngle_rad -> circularAngle_rad
              [] id = CalculatedObjects.circularAngle_rad ->
                    cloneAsMutable(circularAngle_rad)
              [] OTHER -> Unallocated ],
      config |->
        [ origin |-> ConfigObjects.origin,
          plane |-> ConfigObjects.plane,
          circularAngle_rad |-> ConfigObjects.circularAngle_rad,
          semiXAxis |-> semiXAxis,
          semiYAxis |-> semiYAxis ],
      calculated |->
        [ origin |-> CalculatedObjects.origin,
          plane |-> CalculatedObjects.plane,
          circularAngle_rad |-> CalculatedObjects.circularAngle_rad,
          semiXAxis |-> semiXAxis,
          semiYAxis |-> semiYAxis ] ]

\* new EllipticalArcConfigCalculator(factoryVector): the fields the
\* projection stages fill.  new Matrix2() and MatrixFactory.create leave
\* their elements unset.
NewEllipticalArcConfigCalculator ==
    [ ellipseBasis |-> NewMatrix3,
      eyePoint_c |-> << 0, 0, 0 >>,
      ellipticalConeVertex_c |-> << 0, 0, 0 >>,
      ellipseCenter_c |-> << 0, 0, 0 >>,
      conicEqA_c |-> NewMatrix3,
      conicEqB_c |-> << 0, 0, 0 >>,
      conicEqC_c |-> -One,
      conicEqA_s |-> NewMatrix3,
      conicEqB_s |-> << 0, 0, 0 >>,
      conicEqC_s |-> NaN,
      projectionPlaneBasis2 |-> << << NaN, NaN >>, << NaN, NaN >>, << NaN, NaN >> >>,
      conicEqA_p |-> << << NaN, NaN >>, << NaN, NaN >> >>,
      conicEqB_p |-> << 0, 0 >>,
      conicEqC_p |-> NaN,
      ellipseEqK_p |-> << 0, 0 >>,
      ellipseEqM_p |-> << << NaN, NaN >>, << NaN, NaN >> >> ]

\* PlaneDirections.zHat
zHat(h, plane) == vectorCross(h[plane.xHat], h[plane.yHat])

\* EllipticalArcVertexCalculator.calculateVertex for the parameters p
calculateVertex(h, p, circularAngle_rad) ==
    addScaled(addScaled(h[p.origin],
                        multiplyScalar(h[p.plane.xHat], p.semiXAxis),
                        GridCos(circularAngle_rad)),
              multiplyScalar(h[p.plane.yHat], p.semiYAxis),
              Sin(circularAngle_rad))

\* EllipticalArcVertexCalculator.circularAngleForEllipsePoint
circularAngleForEllipsePoint(h, p, pointFromEllipseCenter) ==
    Atan2(fmul(fdiv(dotOf(pointFromEllipseCenter, h[p.plane.yHat]), p.semiYAxis),
               p.semiXAxis),
          dotOf(pointFromEllipseCenter, h[p.plane.xHat]))

\* The circular angle, in the projected ellipse out, of the point of the
\* unprojected ellipse at angle_rad.
projectedAngle(h, parameters, camera, out, angle_rad) ==
    circularAngleForEllipsePoint(h, out,
        subtract(project(camera, calculateVertex(h, parameters, angle_rad)),
                 h[out.origin]))

\* projectCircularAngle: the circular angles, in the projected ellipse, of
\* the start, the end and the middle of the unprojected arc.
circularAngles(h, parameters, camera, out) ==
    LET range == h[parameters.circularAngle_rad]
    IN  << projectedAngle(h, parameters, camera, out, range.start),
           projectedAngle(h, parameters, camera, out, range.end),
           projectedAngle(h, parameters, camera, out,
                          fdiv(fadd(range.start, range.end), Num(2))) >>

\* EllipticalArcConfigCalculator.projectCircularAngle: the heap it leaves,
\* angles being the three angles it calculated.
projectCircularAngle(h, parameters, out, angles) ==
    LET startAngle_rad == angles[1]
        endAngle_rad == angles[2]
        midAngle_rad == angles[3]
        size == fsub(h[parameters.circularAngle_rad].end,
                     h[parameters.circularAngle_rad].start)
        needsInversion ==
            \/ Lt(midAngle_rad, MathMin(startAngle_rad, endAngle_rad))
            \/ Gt(midAngle_rad, MathMax(startAngle_rad, endAngle_rad))
        needsDirectionFlip ==
            \/ Gt(endAngle_rad, startAngle_rad) /\ Lt(size, 0)
            \/ Lt(endAngle_rad, startAngle_rad) /\ Gt(size, 0)
        flippedStart == IF needsDirectionFlip THEN Minus(startAngle_rad) ELSE startAngle_rad
        flippedEnd == IF needsDirectionFlip THEN Minus(endAngle_rad) ELSE endAngle_rad
        newStart == IF needsInversion THEN flippedEnd ELSE flippedStart
        newEnd == IF needsInversion THEN fadd(flippedStart, fmul(Num(2), PI)) ELSE flippedEnd
    IN  [h EXCEPT
            ![out.plane.yHat] =
                IF needsDirectionFlip THEN multiplyScalar(@, Num(-1)) ELSE @,
            ![out.circularAngle_rad] = setStartEnd(@, newStart, newEnd)]

\* EllipticalArcConfigCalculator.calcSkewedConeInInputEllipseFrame: the
\* calculator's fields and the SkewedEllipticalConeResult it returns.
calcSkewedConeInInputEllipseFrame(h, parameters, camera, calc) ==
    IF Lt(MathAbs(parameters.semiXAxis), EPS) \/ Lt(MathAbs(parameters.semiYAxis), EPS)
    THEN [calculator |-> calc, result |-> "AxisDegenerate"]
    ELSE
    LET xHat == h[parameters.plane.xHat]
        yHat == h[parameters.plane.yHat]
        eyePoint_c == subtract(camera.worldPosition, h[parameters.origin])
        E == << dotOf(eyePoint_c, xHat), dotOf(eyePoint_c, yHat),
                dotOf(eyePoint_c, zHat(h, parameters.plane)) >>
        located == [calc EXCEPT
                        !.ellipseBasis =
                            setFromColumnVectors3(xHat, yHat, zHat(h, parameters.plane)),
                        !.eyePoint_c = eyePoint_c,
                        !.ellipticalConeVertex_c = E]
        origin == h[parameters.origin]
        semiXAxis == parameters.semiXAxis
        semiYAxis == parameters.semiYAxis
        a_c_02 == fdiv(Minus(E[1]), fmul(fmul(E[3], semiXAxis), semiXAxis))
        a_c_12 == fdiv(Minus(E[2]), fmul(fmul(E[3], semiYAxis), semiYAxis))
        a_c_22 ==
            fdiv(fsub(fadd(fdiv(fmul(E[1], E[1]), fmul(semiXAxis, semiXAxis)),
                           fdiv(fmul(E[2], E[2]), fmul(semiYAxis, semiYAxis))),
                      One),
                 fmul(E[3], E[3]))
    IN  IF Lt(MathAbs(E[3]), EPS)
        THEN [calculator |-> located, result |-> "PlaneDegenerate"]
        ELSE [calculator |->
                [located EXCEPT
                    !.ellipseCenter_c =
                        << dotOf(origin, xHat), dotOf(origin, yHat),
                           dotOf(origin, zHat(h, parameters.plane)) >>,
                    !.conicEqA_c =
                        << << fdiv(One, fmul(semiXAxis, semiXAxis)), 0, a_c_02 >>,
                           << 0, fdiv(One, fmul(semiYAxis, semiYAxis)), a_c_12 >>,
                           << a_c_02, a_c_12, a_c_22 >> >>,
                    !.conicEqB_c = << 0, 0, fdiv(Num(2), E[3]) >>],
              result |-> "Finite"]

\* EllipticalArcConfigCalculator.calcConeInWorldFrame
calcConeInWorldFrame(calc) ==
    LET vector == multiplyVector(calc.conicEqA_c, calc.ellipseCenter_c)
    IN  [calc EXCEPT
            !.conicEqA_s =
                multiply(multiply(calc.ellipseBasis, calc.conicEqA_c),
                         transposed(calc.ellipseBasis)),
            !.conicEqB_s =
                multiplyVector(calc.ellipseBasis,
                               add(multiplyScalar(vector, Num(-2)), calc.conicEqB_c)),
            !.conicEqC_s =
                fadd(fsub(dotOf(vector, calc.ellipseCenter_c),
                          dotOf(calc.conicEqB_c, calc.ellipseCenter_c)),
                     calc.conicEqC_c)]

\* EllipticalArcConfigCalculator.calcProjectedEllipseConicEq
calcProjectedEllipseConicEq(camera, calc) ==
    LET basis2 == setFromColumnVectors2(camera.xHat, camera.yHat)
        projectionPlaneCenter == getProjectionPlaneCenter(camera)
        vector3 == multiplyVector(calc.conicEqA_s, projectionPlaneCenter)
    IN  [calc EXCEPT
            !.projectionPlaneBasis2 = basis2,
            !.conicEqA_p =
                multiply(transposed(basis2), multiply(calc.conicEqA_s, basis2)),
            !.conicEqB_p =
                multiplyVector(transposed(basis2),
                               add(multiplyScalar(vector3, Num(2)), calc.conicEqB_s)),
            !.conicEqC_p =
                fadd(fadd(dotOf(vector3, projectionPlaneCenter),
                          dotOf(calc.conicEqB_s, projectionPlaneCenter)),
                     calc.conicEqC_s)]

\* EllipticalArcConfigCalculator.calcProjectedEllipseMatrixEq
calcProjectedEllipseMatrixEq(calc) ==
    LET vector == multiplyVector(invert(calc.conicEqA_p), calc.conicEqB_p)
    IN  [calc EXCEPT
            !.ellipseEqK_p = multiplyScalar(vector, fdiv(Num(-1), Num(2))),
            !.ellipseEqM_p =
                multiplyMatrixScalar(calc.conicEqA_p,
                    fdiv(One, fsub(fdiv(dotOf(vector, calc.conicEqB_p), Num(4)),
                                   calc.conicEqC_p)))]

\* calcPerspectiveProjection: how many times it calls console.error for the
\* eigenvalues it found.
eigenvalueErrors(eigenvalues) ==
    (IF Lt(MathAbs(eigenvalues[1]), EPS) \/ Lt(MathAbs(eigenvalues[2]), EPS)
     THEN 1 ELSE 0)
    + (IF Lt(eigenvalues[1], 0) \/ Lt(eigenvalues[2], 0) THEN 1 ELSE 0)

\* calcPerspectiveProjection: the axis directions it takes from the two
\* eigenvector columns, threw telling whether it throws instead.
axisDirections(column0, column1, basis2) ==
    IF Lt(dotOf(column0, column0), EPS)
    THEN IF Lt(dotOf(column1, column1), EPS)
         THEN [ threw |-> FALSE,
                xHat |-> << basis2[1][1], basis2[2][1], 0 >>,
                yHat |-> << basis2[1][2], basis2[2][2], 0 >> ]
         ELSE [ threw |-> TRUE, xHat |-> column0, yHat |-> column1 ]
    ELSE IF Lt(dotOf(column1, column1), EPS)
         THEN [ threw |-> TRUE, xHat |-> column0, yHat |-> column1 ]
         ELSE [ threw |-> FALSE,
                xHat |-> << normalized(column0)[1], normalized(column0)[2], 0 >>,
                yHat |-> << normalized(column1)[1], normalized(column1)[2], 0 >> ]

\* calcPerspectiveProjection up to the axis directions: the heap and the
\* output parameters with the origin and the semi-axes written.
perspectiveOriginAndAxes(h, calc, out, eigenvalues) ==
        [ heap |-> [h EXCEPT ![out.origin] =
                        << calc.ellipseEqK_p[1], calc.ellipseEqK_p[2], 0 >>],
          out |-> [out EXCEPT
                      !.semiXAxis = fdiv(One, Sqrt(eigenvalues[1])),
                      !.semiYAxis = fdiv(One, Sqrt(eigenvalues[2]))] ]

\* calcDegenerateProjection: the projections of the ends of the x diameter
\* and of the start of the y diameter
projectedDiameterEnds(h, parameters, camera) ==
    [ xDiameterStart |-> project(camera, calculateVertex(h, parameters, 0)),
      xDiameterEnd |-> project(camera, calculateVertex(h, parameters, PI)),
      yDiameterStart |-> project(camera, calculateVertex(h, parameters, HalfPI)) ]

\* calcDegenerateProjection from there up to the call of projectCircularAngle
degenerateOriginAndAxes(h, camera, out, ends) ==
    LET xDiameterStart == ends.xDiameterStart
        xDiameterEnd == ends.xDiameterEnd
        yDiameterStart == ends.yDiameterStart
        origin == multiplyScalar(add(xDiameterStart, xDiameterEnd), fdiv(One, Num(2)))
        semiXAxis == distanceTo(xDiameterEnd, origin)
        semiYAxis == distanceTo(yDiameterStart, origin)
        xHat == normalized(subtract(xDiameterStart, origin))
        yHat == normalized(subtract(yDiameterStart, origin))
    IN  [ heap |->
            IF Geq(MathAbs(semiXAxis), EPS)
            THEN [h EXCEPT ![out.origin] = origin,
                           ![out.plane.xHat] = xHat,
                           ![out.plane.yHat] = << Minus(xHat[2]), xHat[1], xHat[3] >>]
            ELSE IF Geq(MathAbs(semiYAxis), EPS)
            THEN [h EXCEPT ![out.origin] = origin,
                           ![out.plane.yHat] = yHat,
                           ![out.plane.xHat] = << Minus(yHat[2]), yHat[1], yHat[3] >>]
            ELSE [h EXCEPT ![out.origin] = origin,
                           ![out.plane.xHat] = camera.xHat,
                           ![out.plane.yHat] = camera.yHat],
          out |-> [out EXCEPT !.semiXAxis = semiXAxis, !.semiYAxis = semiYAxis] ]

\* EllipticalArcConfigCalculator.projectNonPerspective: the heap and the
\* output parameters it leaves, projectedOrigin being the projection of the
\* origin it starts with.
projectNonPerspective(h, parameters, camera, out, projectedOrigin) ==
    LET unprojectedOrigin == h[parameters.origin]
        scaledXHatEnd ==
            project(camera, addScaled(unprojectedOrigin, h[parameters.plane.xHat],
                                      parameters.semiXAxis))
        scaledYHatEnd ==
            project(camera, addScaled(unprojectedOrigin, h[parameters.plane.yHat],
                                      parameters.semiYAxis))
    IN  [ heap |->
            [h EXCEPT
                ![out.origin] = projectedOrigin,
                ![out.plane.xHat] =
                    subtract(project(camera, add(unprojectedOrigin,
                                                 h[parameters.plane.xHat])),
                             projectedOrigin),
                ![out.plane.yHat] =
                    subtract(project(camera, add(unprojectedOrigin,
                                                 h[parameters.plane.yHat])),
                             projectedOrigin),
                ![ClonedRange] = cloneAsMutable(h[parameters.circularAngle_rad])],
          out |->
            [out EXCEPT
                !.semiXAxis = distanceTo(projectedOrigin, scaledXHatEnd),
                !.semiYAxis = distanceTo(projectedOrigin, scaledYHatEnd),
                !.circularAngle_rad = ClonedRange] ]

(***************************************************************************)
(* Color: CSS colour strings                                               *)
(*                                                                         *)
(* A string is the sequence of its characters.  The numbers here are       *)
(* JavaScript's integers: the shifts and the bitwise or work on 32 bits.   *)
(***************************************************************************)
HexDigits ==
    << "0", "1", "2", "3", "4", "5", "6", "7", "8", "9", "a", "b", "c", "d", "e", "f" >>

UpperHexDigits ==
    << "0", "1", "2", "3", "4", "5", "6", "7", "8", "9", "A", "B", "C", "D", "E", "F" >>

\* The value of the character c as a digit of radix 16, -1 if it is none.
DigitValue(c) ==
    IF \E v \in 1 .. 16 : HexDigits[v] = c \/ UpperHexDigits[v] = c
    THEN (CHOOSE v \in 1 .. 16 : HexDigits[v] = c \/ UpperHexDigits[v] = c) - 1
    ELSE -1

\* s without its first n characters.
Drop(s, n) == SubSeq(s, n + 1, Len(s))

\* s.substring(start, end)
substring(s, start, end) == SubSeq(s, start + 1, end)

\* s without the white space it begins with.
RECURSIVE TrimStart(_)
TrimStart(s) == IF Len(s) > 0 /\ s[1] = " " THEN TrimStart(Drop(s, 1)) ELSE s

\* How many of the characters s begins with are digits of radix 16.
RECURSIVE DigitCount(_)
DigitCount(s) ==
    IF Len(s) > 0 /\ DigitValue(s[1]) >= 0 THEN 1 + DigitCount(Drop(s, 1)) ELSE 0

\* The number the first n characters of s, all digits, are in radix 16.
RECURSIVE DigitsValue(_, _)
DigitsValue(s, n) ==
    IF n = 0 THEN 0 ELSE 16 * DigitsValue(s, n - 1) + DigitValue(s[n])

\* parseInt(s, 16): white space is skipped, then a sign and a 0x prefix are
\* taken, then the digits up to the first character that is none; NaN when
\* there is no digit.
parseInt16(s) ==
    LET trimmed == TrimStart(s)
        signed == Len(trimmed) > 0 /\ trimmed[1] \in {"-", "+"}
        unsigned == IF signed THEN Drop(trimmed, 1) ELSE trimmed
        prefixed == Len(unsigned) > 1 /\ unsigned[1] = "0" /\ unsigned[2] \in {"x", "X"}
        digits == IF prefixed THEN Drop(unsigned, 2) ELSE unsigned
        n == DigitCount(digits)
    IN  IF n = 0 THEN NaN
        ELSE IF signed /\ trimmed[1] = "-" THEN -DigitsValue(digits, n)
        ELSE DigitsValue(digits, n)

\* A 32-bit integer is the tuple of its four bytes, the highest first.
\* ToInt32 of a number of less than 32 bits, negative or not.
ToInt32(x) ==
    << (x \div (2 ^ 24)) % 256, (x \div (2 ^ 16)) % 256, (x \div (2 ^ 8)) % 256, x % 256 >>

\* x << n for n = 8, 16 or 24, and w >>> n for n = 0 or 8
ShiftLeft(x, n) ==
    LET w == ToInt32(x)
    IN  IF n = 24 THEN << w[4], 0, 0, 0 >>
        ELSE IF n = 16 THEN << w[3], w[4], 0, 0 >>
        ELSE << w[2], w[3], w[4], 0 >>

UnsignedShiftRight(w, n) == IF n = 0 THEN w ELSE << 0, w[1], w[2], w[3] >>

\* The bitwise or of the lowest n bits of x and y.
RECURSIVE OrBits(_, _, _)
OrBits(x, y, n) ==
    IF n = 0 THEN 0
    ELSE 2 * OrBits(x \div 2, y \div 2, n - 1) +
         (IF x % 2 = 1 \/ y % 2 = 1 THEN 1 ELSE 0)

\* v | w
BitOr(v, w) == [i \in 1 .. 4 |-> OrBits(v[i], w[i], 8)]

\* r = parseInt(c, 16); r = (r << 4) + r
DoubledDigit(c) ==
    LET r == parseInt16(<< c >>)
    IN  IF IsNaN(r) THEN NaN ELSE r * 16 + r

\* Color.fromCssColor up to its checks: the four channels, or that it throws.
Channels(colorSpec) ==
    IF Len(colorSpec) > 0 /\ colorSpec[1] = "#"
    THEN IF Len(colorSpec) = 4
         THEN [ threw |-> FALSE, r |-> DoubledDigit(colorSpec[2]),
                g |-> DoubledDigit(colorSpec[3]), b |-> DoubledDigit(colorSpec[4]),
                a |-> 255 ]
         ELSE IF Len(colorSpec) = 5
         THEN [ threw |-> FALSE, r |-> DoubledDigit(colorSpec[2]),
                g |-> DoubledDigit(colorSpec[3]), b |-> DoubledDigit(colorSpec[4]),
                a |-> DoubledDigit(colorSpec[5]) ]
         ELSE IF Len(colorSpec) = 7
         THEN [ threw |-> FALSE, r |-> parseInt16(substring(colorSpec, 1, 3)),
                g |-> parseInt16(substring(colorSpec, 3, 5)),
                b |-> parseInt16(substring(colorSpec, 5, 7)), a |-> 255 ]
         ELSE IF Len(colorSpec) = 9
         THEN [ threw |-> FALSE, r |-> parseInt16(substring(colorSpec, 1, 3)),
                g |-> parseInt16(substring(colorSpec, 3, 5)),
                b |-> parseInt16(substring(colorSpec, 5, 7)),
                a |-> parseInt16(substring(colorSpec, 7, 9)) ]
         ELSE [ threw |-> TRUE, r |-> NaN, g |-> NaN, b |-> NaN, a |-> NaN ]
    ELSE [ threw |-> TRUE, r |-> NaN, g |-> NaN, b |-> NaN, a |-> NaN ]

\* Color.fromCssColor: whether it throws, and the rgbaInt of the colour it
\* returns.
fromCssColor(colorSpec) ==
    LET c == Channels(colorSpec)
    IN  IF c.threw \/ IsNaN(c.r) \/ IsNaN(c.g) \/ IsNaN(c.b) \/ IsNaN(c.a)
        THEN [ threw |-> TRUE, rgbaInt |-> NaN ]
        ELSE [ threw |-> FALSE,
               rgbaInt |->
                   UnsignedShiftRight(
                       BitOr(BitOr(BitOr(ShiftLeft(c.r, 24), ShiftLeft(c.g, 16)),
                                   ShiftLeft(c.b, 8)), ToInt32(c.a)), 0) ]

\* Color.a
alpha(rgbaInt) == rgbaInt[4]

\* The digits of the bytes of w from the i-th on, two for each.
RECURSIVE ByteDigits(_, _)
ByteDigits(w, i) ==
    IF i > 4 THEN << >>
    ELSE << HexDigits[(w[i] \div 16) + 1], HexDigits[(w[i] % 16) + 1] >> \o ByteDigits(w, i + 1)

\* s without the zeros it begins with, its last character kept.
RECURSIVE StripZeros(_)
StripZeros(s) == IF Len(s) > 1 /\ s[1] = "0" THEN StripZeros(Drop(s, 1)) ELSE s

\* w.toString(16): the digits of w without leading zeros
ToHex(w) == StripZeros(ByteDigits(w, 1))

\* s.padStart(length, '0')
RECURSIVE padStart(_, _)
padStart(s, length) == IF Len(s) >= length THEN s ELSE padStart(<< "0" >> \o s, length)

\* Color.toCssHex
toCssHex(rgbaInt) ==
    LET colorInt == IF alpha(rgbaInt) = 255 THEN UnsignedShiftRight(rgbaInt, 8) ELSE rgbaInt
        colorLen == IF alpha(rgbaInt) = 255 THEN 6 ELSE 8
    IN  << "#" >> \o padStart(ToHex(colorInt), colorLen)

(***************************************************************************)
(* components/footnote: FootnoteUpdater and its ref objects                *)
(*                                                                         *)
(* An array is the sequence of its elements, index i of the code being     *)
(* element i + 1; undefined, which also stands for a hole of the array,    *)
(* is the empty tuple.  A DOM element is the tuple of its kind and the     *)
(* number of the footnote it belongs to.                                   *)
(***************************************************************************)
undefined == << >>

\* array[index]
ElementAt(array, index) ==
    IF index >= 0 /\ index < Len(array) THEN array[index + 1] ELSE undefined

\* array[index] = element: an index past the end leaves holes before it.
StoreAt(array, index, element) ==
    [i \in 1 .. (IF index < Len(array) THEN Len(array) ELSE index + 1) |->
        IF i = index + 1 THEN element
        ELSE IF i <= Len(array) THEN array[i] ELSE undefined]

\* array.splice(index, 1): nothing is removed past the end.
splice(array, index) ==
    IF index < Len(array)
    THEN SubSeq(array, 1, index) \o SubSeq(array, index + 2, Len(array))
    ELSE array

\* A FootnoteUpdater's array and the index fields of the ref objects onto
\* it.
Registry(array, refs) == [array |-> array, refs |-> refs]

\* FootnoteUpdaterBodyFootmarkRefObject.current and
\* FootnoteUpdaterFootnoteRefObject.current (getter) of ref object r
current(reg, r) ==
    IF reg.refs[r] >= 0 THEN ElementAt(reg.array, reg.refs[r]) ELSE undefined

\* FootnoteUpdaterBodyFootmarkRefObject.current and
\* FootnoteUpdaterFootnoteRefObject.current (setter) of ref object r, with
\* the updater's add, replace and remove methods it calls; null is handed
\* over as undefined.
setCurrent(reg, r, node) ==
    IF node = undefined
    THEN IF reg.refs[r] >= 0
         THEN Registry(splice(reg.array, reg.refs[r]),
                       [reg.refs EXCEPT ![r] = -1])
         ELSE Registry(reg.array, [reg.refs EXCEPT ![r] = -1])
    ELSE IF reg.refs[r] < 0
    THEN Registry(Append(reg.array, node),
                  [reg.refs EXCEPT ![r] = Len(reg.array)])
    ELSE Registry(StoreAt(reg.array, reg.refs[r], node), reg.refs)

\* The page layout: footmark n lies MarkSpacing pixels below footmark
\* n - 1, and the later a footmark the taller it is.
MarkSpacing == 10

\* getOffsetFromElementTop(mark, bodyContainer)
getOffsetFromElementTop(mark) == mark[2] * MarkSpacing

\* mark.offsetHeight
offsetHeight(mark) == (mark[2] - 1) * (mark[2] - 1) * 4

\* What the search returns when it reads a property of undefined.
TypeError == -2

\* FootnoteUpdater.getFootmarkInViewStartIdx: the loop, from the values the
\* locals have when an iteration starts.
RECURSIVE footmarkSearch(_, _, _, _, _, _)
footmarkSearch(marks, startI, endI, foundInView, viewStartY, viewEndY) ==
    IF ~(startI < endI)
    THEN IF startI < endI /\ foundInView THEN startI ELSE -1
    ELSE LET midI == (startI + endI) \div 2
             mark == ElementAt(marks, midI)
             markStartY == getOffsetFromElementTop(mark)
             markEndY == markStartY + offsetHeight(mark)
         IN  IF mark = undefined THEN TypeError
             ELSE IF markEndY < viewStartY
             THEN footmarkSearch(marks, midI + 1, endI, foundInView,
                                 viewStartY, viewEndY)
             ELSE IF markStartY > viewEndY
             THEN IF midI < endI
                  THEN footmarkSearch(marks, startI, midI, foundInView,
                                      viewStartY, viewEndY)
                  ELSE IF startI < endI /\ foundInView THEN startI ELSE -1
             ELSE IF midI + 1 < endI
             THEN footmarkSearch(marks, startI, midI + 1, TRUE,
                                 viewStartY, viewEndY)
             ELSE midI

\* FootnoteUpdater.getFootmarkInViewStartIdx
getFootmarkInViewStartIdx(marks, viewStartY, viewEndY) ==
    footmarkSearch(marks, 0, Len(marks), FALSE, viewStartY, viewEndY)

(***************************************************************************)
(* three_scene_renderer and content/archytas_3d_model                      *)
(*                                                                         *)
(* A ThreeSceneRenderer is a record: animated, the number of its           *)
(* renderFrame callbacks requestAnimationFrame holds (frameRequests), the  *)
(* objects of its scene, and whether its canvas is a child of its target   *)
(* element (attached; destroy removes it).  An ArchytasSceneUpdater is a   *)
(* record of its fields with the renderers made so far; its renderer field *)
(* is an index of them, 0 for null.  A DOM element is << "div", key >>.    *)
(***************************************************************************)
null == << "null" >>

ElementKeys ==
    { "errorMessageContainerElement", "canvasContainerElement",
      "ptAElement", "ptOElement", "ptPElement", "ptQElement", "ptRElement",
      "ptSElement", "ptTElement" }

NewThreeSceneRenderer ==
    [ animated |-> FALSE, frameRequests |-> 0, scene |-> {"lights"},
      attached |-> TRUE ]

\* renderFrame, called by animate or by the browser for one request: while
\* animated it renders and requests the next frame.
renderFrame(r, requested) ==
    IF r.animated
        THEN [r EXCEPT !.frameRequests = @ - requested + 1]
        ELSE [r EXCEPT !.frameRequests = @ - requested]

animate(r) ==
    IF r.animated THEN r ELSE renderFrame([r EXCEPT !.animated = TRUE], 0)

unanimate(r) == [r EXCEPT !.animated = FALSE]

destroy(r) == [unanimate(r) EXCEPT !.attached = FALSE]

\* The scene objects the constructor of ArchytasModel adds to the scene of
\* its renderer.
SceneObjects ==
    {"torus", "cylinder", "cone", "baseCircle", "transverseCircle", "lineRq"}

\* new ArchytasModel(sceneRenderer, ...): the model keeps its renderer.
NewModel(sceneRenderer) == << "ArchytasModel", sceneRenderer >>

sceneRenderer(m) == m[2]

readyToInitialize(u) ==
    /\ \A key \in ElementKeys : u.params.element[key] # null
    /\ u.params.angleOap_deg # NaN

initialize(u) ==
    LET made == Len(u.renderers) + 1
        u1 == IF u.renderer = 0
                  THEN [u EXCEPT !.renderers =
                                     Append(@, animate(NewThreeSceneRenderer)),
                                 !.renderer = made]
                  ELSE u
        u2 == IF u1.labels = null
                  THEN [u1 EXCEPT !.labels = << "labels", u.params.element >>]
                  ELSE u1
    IN  IF u2.model = null
            THEN [u2 EXCEPT !.model = NewModel(u2.renderer),
                            !.renderers[u2.renderer].scene =
                                @ \cup SceneObjects]
            ELSE u2

uninitialize(u) ==
    IF u.renderer # 0
        THEN [u EXCEPT !.initialized = FALSE,
                       !.renderers[u.renderer] = destroy(@),
                       !.renderer = 0]
        ELSE [u EXCEPT !.initialized = FALSE]

tryInitialize(u) ==
    CASE ~u.initialized /\ readyToInitialize(u) ->
           [initialize(u) EXCEPT !.initialized = TRUE]
      [] u.initialized /\ ~readyToInitialize(u) -> uninitialize(u)
      [] OTHER -> u

(***************************************************************************)
(* components/color_theme_menu                                             *)
(*                                                                         *)
(* A ColorThemeUpdater is a record of its fields together with what it     *)
(* writes: the class list of document.body and the calls of its listeners  *)
(* (notified).  The fieldset is << "fieldset", d, c >>: d says whether it  *)
(* has the os-default class, c is the value of its checked radio input.    *)
(* A theme name held in a field that may be null is << "string", name >>.  *)
(***************************************************************************)
allowedThemeNames == {"dark", "light"}

darkThemeName == "dark"

lightThemeName == "light"

themeClassNames == {themeName \o "-theme" : themeName \in allowedThemeNames}

NewFieldSet == << "fieldset", FALSE, null >>

notifyThemeChangeListeners(t, themeName) ==
    [t EXCEPT !.notified =
         @ \o [i \in 1 .. Len(t.themeChangeListeners) |->
                    << t.themeChangeListeners[i], themeName >>]]

applyTheme(t, themeName) ==
    LET t1 == [t EXCEPT !.bodyClassList =
                   (@ \ themeClassNames) \cup {themeName \o "-theme"}]
        t2 == IF t1.themesFieldSet # null
                  THEN [t1 EXCEPT !.themesFieldSet =
                           << "fieldset", t.userSelectedTheme = null,
                              << "string", themeName >> >>]
                  ELSE t1
    IN  notifyThemeChangeListeners(t2, themeName)

handleDarkModeOsChange_alwaysApplies(t) ==
    applyTheme(t, IF t.osLight THEN lightThemeName ELSE darkThemeName)

handleDarkModeOsChange(t) ==
    IF t.userSelectedTheme = null
        THEN applyTheme(t, IF t.osLight THEN lightThemeName ELSE darkThemeName)
        ELSE t

\* lightModeMediaQuery holds the set of its change listeners; this updater's
\* is "handleDarkModeOsChange".
detachFromDom(t) ==
    IF t.lightModeMediaQuery # null
        THEN [t EXCEPT !.lightModeMediaQuery =
                           << "listeners", @[2] \ {"handleDarkModeOsChange"} >>]
        ELSE t

attachToDom(t) ==
    handleDarkModeOsChange(
        [t EXCEPT !.lightModeMediaQuery =
             << "listeners", {"handleDarkModeOsChange"} >>])

setThemesFieldSet(t, node) ==
    IF node = null
        THEN detachFromDom([t EXCEPT !.themesFieldSet = node])
        ELSE attachToDom([t EXCEPT !.themesFieldSet = node])

handleUserSelect(t, themeName) ==
    applyTheme([t EXCEPT !.userSelectedTheme = << "string", themeName >>],
               themeName)

(***************************************************************************)
(* archytas_model: the state of an ArchytasModel                           *)
(*                                                                         *)
(* A point is held symbolically by its name and the angle its coordinates  *)
(* were calculated for.  A label's screen position is held as the anchor   *)
(* point and horizontal offset LabelPositioner.positionLabel read; the     *)
(* camera and the world matrices do not change with the angle.             *)
(***************************************************************************)
VARIABLES
    geometry,               \* surface and wireframe IndexedGeometry per solid
    connectingSliceCoords,  \* ConnectingSliceVertexCoords per solid
    cone,                   \* ArchytasCone's own fields
    baseCircle,             \* ArchytasBaseCircle's fields
    transverseCircle,       \* ArchytasTransverseCircle's fields
    lineRq,                 \* ArchytasModel.lineRq
    labels,                 \* the seven labels
    consoleErrors,          \* who called console.error during the last call
    writes,                 \* what the last call wrote, in order
    lastCall,               \* the last call and its argument
    testRange,              \* a ValueRange under test
    testStepIdx,            \* the step index handed to atStep
    testValue,              \* what atStep returned for it
    testIdx,                \* what lastIncludedStepIdx returned for that
    testSetStartEnd,        \* the arguments setStartEnd was called with
    rangePc,                \* how far the range test has got
    camera,                 \* a CameraTransform
    cameraQ,                \* the projection plane point handed to it
    cameraWorld,            \* what projectionToWorld returned for it
    cameraProjected,        \* what project returned for that
    cameraWarnings,         \* what project handed to console.warn
    cameraPc,               \* how far the camera round trip has got
    arcHeap,                \* the vectors and ranges of an EllipticalArc
    arcConfig,              \* EllipticalArc.config
    arcCalculated,          \* EllipticalArc._calculatedConfig
    arcCamera,              \* the camera the arc is projected to
    calculator,             \* the EllipticalArcConfigCalculator's fields
    arcErrors,              \* console.error calls of the projection
    arcBefore,              \* what config held when the projection began
    arcPc,                  \* how far the projection has got
    matrixThis,             \* the matrix a matrix operation is called on
    matrixArg,              \* the matrix handed to it
    matrixOut,              \* the out_result handed to it, or what it returned
    matrixOp,               \* the operation called
    matrixPc,               \* whether it is called, has returned or has thrown
    colorSpec,              \* the string handed to Color.fromCssColor
    rgbaInt,                \* the rgbaInt of the Color it returned
    cssHex,                 \* what toCssHex returned for that Color
    colorPc,                \* the call that is next, or how the calls ended
    oapCompliment,          \* an angleOapCompliment_rad
    transverseCircleAngle,  \* what fromAngleOapCompliment_rad returned for it
    oapComplimentBack,      \* what toAngleOapCompliment_rad returned for that
    anglePc,                \* the conversion that is next
    bodyFootmarks,          \* FootnoteUpdater.bodyFootmarks
    footnotes,              \* FootnoteUpdater.footnotes
    bodyFootmarkRefs,       \* index of each FootnoteUpdaterBodyFootmarkRefObject
    footnoteRefs,           \* index of each FootnoteUpdaterFootnoteRefObject
    viewY,                  \* the viewStartY and viewEndY handed to the search
    footmarkInViewStartIdx, \* what getFootmarkInViewStartIdx returned
    footnotePc,             \* whether the page is mounting or has been scrolled
    params,                 \* ArchytasSceneUpdater.params
    renderer,               \* ArchytasSceneUpdater.renderer: 0 is null, else an index of renderers
    model,                  \* ArchytasSceneUpdater.model
    sceneLabels,            \* ArchytasSceneUpdater.labels
    initialized,            \* ArchytasSceneUpdater.initialized
    renderers,              \* the ThreeSceneRenderer objects made so far
    userSelectedTheme,      \* ColorThemeUpdater.userSelectedTheme
    themesFieldSet,         \* ColorThemeUpdater.themesFieldSet: null or the state of the fieldset
    bodyClassList,          \* document.body.classList
    themeChangeListeners,   \* ColorThemeUpdater.themeChangeListeners
    lightModeMediaQuery,    \* ColorThemeUpdater.lightModeMediaQuery: null or its change listeners
    osLight,                \* whether the OS prefers the light colour scheme
    notified,               \* the listener calls of the last call in order
    themeLastCall,          \* the last call on the ColorThemeUpdater
    userHasSelected,        \* whether handleUserSelect has been called
    viewMatrix,             \* MatrixColumnAsVectorBase._matrix
    viewColumnIdx,          \* MatrixColumnAsVectorBase._columnIdx
    viewBefore,             \* the matrix before the call of setComponent
    viewSet,                \* the arguments of the call of setComponent
    viewGot,                \* what getComponent returned
    viewPc                  \* how far the calls on the view have come

Pt(name, at) == [name |-> name, at |-> at]

origin == Pt("origin", 0)

\* new Line(material, [p0, p1]): the sequence of the line's vertices.
NewLine(p0, p1) == << p0, p1 >>

\* Line.updateVertex
updateVertex(line, vertexIdx, newVertex) ==
    [line EXCEPT ![vertexIdx + 1] = newVertex]

LabelNames == {"ptA", "ptO", "ptP", "ptQ", "ptR", "ptS", "ptT"}

Unpositioned == [anchor |-> Pt("none", NaN), offset |-> NaN]

\* The program state as one record, threaded through the calls of a handler.
State ==
    [ geometry |-> geometry,
      connectingSliceCoords |-> connectingSliceCoords,
      cone |-> cone,
      baseCircle |-> baseCircle,
      transverseCircle |-> transverseCircle,
      lineRq |-> lineRq,
      labels |-> labels,
      consoleErrors |-> consoleErrors,
      writes |-> writes ]

LogError(st, who) == [st EXCEPT !.consoleErrors = @ \cup {who}]

\* What a call logged and wrote is kept for that call only.
ClearLog(st) == [st EXCEPT !.consoleErrors = {}, !.writes = << >>]

Wrote(st, what) == [st EXCEPT !.writes = @ \o what]

\* LabelPositioner.positionLabel
positionLabel(st, label, localPosition) ==
    [st EXCEPT !.labels[label].position =
                   [anchor |-> localPosition,
                    offset |-> st.labels[label].relativeOffset],
               !.writes = Append(@, <<label, "position">>)]

\* IndexedGeometry.drawEndSliceIndex (setter)
drawEndSliceIndex(st, s, g, sliceIdx) ==
    IF ~IsNaN(sliceIdx) /\ sliceIdx >= 0 /\ sliceIdx <= calculatedSliceCount(s)
    THEN Wrote([st EXCEPT !.geometry[s][g] =
                    [ startSliceIndex |-> @.startSliceIndex,
                      endSliceIndex |-> sliceIdx,
                      drawStart |->
                          indexStartVertexIndex(s, g, @.startSliceIndex),
                      drawCount |-> indexStartVertexIndex(s, g, sliceIdx) ]],
               << <<s, g>> >>)
    ELSE LogError(st, <<s, g>>)

\* ConnectingSliceVertexCoords.sliceParameter (setter)
sliceParameter(st, s, value) ==
    IF value # st.connectingSliceCoords[s].sliceParameter \/ IsNaN(value)
    THEN LET sliceIdx == lastIncludedStepIdx(sliceParameterRange(s), value)
         IN  Wrote([st EXCEPT !.connectingSliceCoords[s] =
                        [ sliceParameter |-> value,
                          needsUpdate |-> TRUE,
                          vertices |->
                              updateVertices(s, sliceIdx, value, @.vertices,
                                             sharedVertexCount(s)) ]],
                   << <<s, "connectingSliceCoords">> >>)
    ELSE st

\* The three assignments the sliced solids' setters make once the value and
\* its step index are known: surface and wireframe draw ends, then the
\* connecting slice.
RevealStep(st, s, value, stepIdx) ==
    sliceParameter(
        drawEndSliceIndex(
            drawEndSliceIndex(st, s, "surface", stepIdx),
            s, "wireframe", IF stepIdx > 0 THEN stepIdx + 1 ELSE stepIdx),
        s, value)

\* The sweep revealed up to the step boundary after the value.
RevealUpTo_nextStep(st, s, value) ==
    RevealStep(st, s, value, lastIncludedStepIdx(configRange(s), value) + 1)

\* toroidalAngle_rad, secantAngle_rad, oapAngleCompliment_rad: what the
\* three setters do with a value of their range.
RevealUpTo(st, s, value) ==
    RevealStep(st, s, value, lastIncludedStepIdx(configRange(s), value))

\* ArchytasTorus.toroidalAngle_rad (setter)
toroidalAngle_rad(st, value) ==
    IF includes(configRange("torus"), value)
    THEN RevealUpTo(st, "torus", value)
    ELSE LogError(st, <<"torus", "toroidalAngle_rad">>)

\* The cylinder's setter without its range check.
secantAngle_rad_unchecked(st, value) ==
    RevealUpTo(st, "cylinder", value)

\* ArchytasCylinder.secantAngle_rad (setter)
secantAngle_rad(st, value) ==
    IF includes(configRange("cylinder"), value)
    THEN RevealUpTo(st, "cylinder", value)
    ELSE LogError(st, <<"cylinder", "secantAngle_rad">>)

\* ArchytasCone.updatePts
coneUpdatePts(st, angle) ==
    [st EXCEPT !.cone.ptQ = Pt("cone.ptQ", angle),
               !.cone.ptT = Pt("cone.ptT", angle)]

\* The cone setter's lineQt and lineAt updates.
coneUpdateLines(st) ==
    Wrote([st EXCEPT
             !.cone.lineQt =
                 updateVertex(updateVertex(@, 0, st.cone.ptQ), 1, st.cone.ptT),
             !.cone.lineAt = updateVertex(@, 1, st.cone.ptT)],
          << <<"cone", "lineQt">>, <<"cone", "lineAt">> >>)

\* ArchytasCone.updateLabelPositions
coneUpdateLabelPositions(st) == positionLabel(st, "ptT", st.cone.ptT)

\* The cone setter's closing assignment to _oapAngleCompliment_rad.
coneStore(st, value) == [st EXCEPT !.cone.oapAngleCompliment_rad = value]

\* The cone's setter with the label positioned before anything else.
oapAngleCompliment_rad_labelFirst(st, value) ==
    IF ~IsNaN(value) /\ value = st.cone.oapAngleCompliment_rad
    THEN st
    ELSE IF includes(configRange("cone"), value)
    THEN coneStore(
             coneUpdateLines(
                 coneUpdatePts(
                     RevealUpTo(coneUpdateLabelPositions(st), "cone", value),
                     value)),
             value)
    ELSE LogError(st, <<"cone", "oapAngleCompliment_rad">>)

\* ArchytasCone.oapAngleCompliment_rad (setter)
oapAngleCompliment_rad(st, value) ==
    IF ~IsNaN(value) /\ value = st.cone.oapAngleCompliment_rad
    THEN st
    ELSE IF includes(configRange("cone"), value)
    THEN coneStore(
             coneUpdateLabelPositions(
                 coneUpdateLines(
                     coneUpdatePts(RevealUpTo(st, "cone", value), value))),
             value)
    ELSE LogError(st, <<"cone", "oapAngleCompliment_rad">>)

\* ArchytasBaseCircle.updatePointsAndDirections
baseCircleUpdatePointsAndDirections(st, angle) ==
    [st EXCEPT !.baseCircle.ptQ = Pt("baseCircle.ptQ", angle),
               !.baseCircle.ptP = Pt("baseCircle.ptP", angle)]

\* The base circle setter's lineAp, linePq and linePo updates.
baseCircleUpdateLines(st) ==
    Wrote([st EXCEPT
             !.baseCircle.lineAp = updateVertex(@, 1, st.baseCircle.ptP),
             !.baseCircle.linePq =
                 updateVertex(updateVertex(@, 0, st.baseCircle.ptP),
                              1, st.baseCircle.ptQ),
             !.baseCircle.linePo = updateVertex(@, 0, st.baseCircle.ptP)],
          << <<"baseCircle", "lineAp">>, <<"baseCircle", "linePq">>,
             <<"baseCircle", "linePo">> >>)

\* ArchytasBaseCircle.updateLabelPositions
baseCircleUpdateLabelPositions(st) ==
    positionLabel(
        positionLabel(
            positionLabel(
                positionLabel(st, "ptA", origin),
                "ptO", st.baseCircle.diameterEnd),
            "ptP", st.baseCircle.ptP),
        "ptQ", st.baseCircle.ptQ)

\* ArchytasBaseCircle.angleOapCompliment_rad (setter)
baseCircleAngleOapCompliment_rad(st, value) ==
    IF includes(baseCircleCentralAngle,
                BaseCircleFromAngleOapCompliment_rad(value))
    THEN baseCircleUpdateLabelPositions(
             baseCircleUpdateLines(
                 baseCircleUpdatePointsAndDirections(st, value)))
    ELSE LogError(st, <<"baseCircle", "angleOapCompliment_rad">>)

\* ArchytasTransverseCircle.updatePointsAndDirections
transverseCircleUpdatePointsAndDirections(st, angle) ==
    [st EXCEPT !.transverseCircle.circlePlane = Pt("circlePlane", angle),
               !.transverseCircle.center = Pt("center", angle),
               !.transverseCircle.diameterEnd = Pt("diameterEnd", angle),
               !.transverseCircle.ptP = Pt("transverseCircle.ptP", angle),
               !.transverseCircle.ptR = Pt("ptR", angle)]

\* The transverse circle setter's recalculateVertices and line updates.
transverseCircleUpdateLines(st) ==
    Wrote([st EXCEPT
             !.transverseCircle.circle = st.transverseCircle.circlePlane,
             !.transverseCircle.diameter =
                 updateVertex(@, 1, st.transverseCircle.diameterEnd),
             !.transverseCircle.lineRa =
                 updateVertex(@, 0, st.transverseCircle.ptR),
             !.transverseCircle.lineRp =
                 updateVertex(updateVertex(@, 0, st.transverseCircle.ptR),
                              1, st.transverseCircle.ptP),
             !.transverseCircle.lineRs =
                 updateVertex(updateVertex(@, 0, st.transverseCircle.ptR),
                              1, st.transverseCircle.diameterEnd)],
          << <<"transverseCircle", "circle">>,
             <<"transverseCircle", "diameter">>,
             <<"transverseCircle", "lineRa">>,
             <<"transverseCircle", "lineRp">>,
             <<"transverseCircle", "lineRs">> >>)

\* ArchytasTransverseCircle.updateLabelPositions
transverseCircleUpdateLabelPositions(st) ==
    positionLabel(
        positionLabel(st, "ptR", st.transverseCircle.ptR),
        "ptS", st.transverseCircle.diameterEnd)

\* The transverse circle setter's closing assignment to
\* _angleOapCompliment_rad.
transverseCircleStore(st, value) ==
    [st EXCEPT !.transverseCircle.angleOapCompliment_rad = value]

\* ArchytasTransverseCircle.angleOapCompliment_rad (setter)
transverseCircleAngleOapCompliment_rad(st, value) ==
    IF ~IsNaN(value) /\ st.transverseCircle.angleOapCompliment_rad = value
    THEN st
    ELSE IF includes(transverseCircleCentralAngle_rad,
                     fromAngleOapCompliment_rad(value))
    THEN transverseCircleStore(
             transverseCircleUpdateLabelPositions(
                 transverseCircleUpdateLines(
                     transverseCircleUpdatePointsAndDirections(st, value))),
             value)
    ELSE LogError(st, <<"transverseCircle", "angleOapCompliment_rad">>)

Neg(a) == fsub(Num(0), a)

\* The decimal literal n/100 of the source.
Hundredths(n) == fdiv(Num(n), Num(100))

\* The label offsets ArchytasModel.updateLabelPositions assigns for the unit
\* parameter t.
LabelOffsets(t) ==
    [ ptP |-> fadd(fmul(fsub(Num(1), t), Neg(Hundredths(85))),
                   fmul(t, Hundredths(85))),
      ptQ |-> fadd(fmul(fsub(Num(1), t), Hundredths(50)),
                   fmul(t, Neg(Hundredths(50)))),
      ptR |-> fadd(fadd(
                fmul(fmul(fmul(fsub(Hundredths(50), t), fsub(Num(1), t)),
                          Hundredths(85)), Num(2)),
                fmul(fmul(fmul(fsub(Num(0), t), fsub(Num(1), t)),
                          Hundredths(50)), Num(-4))),
                fmul(fmul(fmul(fsub(Num(0), t), fsub(Hundredths(50), t)),
                          Num(0)), Num(2))),
      ptS |-> fadd(fmul(fsub(Num(1), t), Num(0)),
                   fmul(t, Neg(Hundredths(85)))),
      ptT |-> fadd(fadd(
                fmul(fmul(fmul(fsub(Hundredths(50), t), fsub(Num(1), t)),
                          Num(0)), Num(2)),
                fmul(fmul(fmul(fsub(Num(0), t), fsub(Num(1), t)),
                          Neg(Hundredths(50))), Num(-4))),
                fmul(fmul(fmul(fsub(Num(0), t), fsub(Hundredths(50), t)),
                          Num(0)), Num(2))) ]

SetLabelOffsets(st, offsets) ==
    Wrote([st EXCEPT !.labels["ptP"].relativeOffset = offsets.ptP,
                     !.labels["ptQ"].relativeOffset = offsets.ptQ,
                     !.labels["ptR"].relativeOffset = offsets.ptR,
                     !.labels["ptS"].relativeOffset = offsets.ptS,
                     !.labels["ptT"].relativeOffset = offsets.ptT],
          << <<"ptP", "relativeOffset">>, <<"ptQ", "relativeOffset">>,
             <<"ptR", "relativeOffset">>, <<"ptS", "relativeOffset">>,
             <<"ptT", "relativeOffset">> >>)

\* ArchytasModel.updateLabelPositions
updateLabelPositions(st, angle) ==
    SetLabelOffsets(st, LabelOffsets(fmul(fdiv(angle, PI), Num(2))))

\* The model setter's lineRq update.
updateLineRq(st) ==
    Wrote([st EXCEPT
             !.lineRq =
                 updateVertex(updateVertex(@, 0, st.transverseCircle.ptR),
                              1, st.baseCircle.ptQ)],
          << <<"model", "lineRq">> >>)

(***************************************************************************)
(* new ArchytasModel(...): the constructors, in the order the code runs    *)
(* them, with the labels as ArchytasSceneUpdater.initialize creates them.  *)
(***************************************************************************)
NewLabels ==
    [l \in LabelNames |->
        [ relativeOffset |->
              CASE l = "ptA" -> Neg(Hundredths(50))
                [] l = "ptO" -> Hundredths(50)
                [] OTHER -> Num(0),
          position |-> Unpositioned ]]

NewArchytasCone ==
    LET a == fdiv(PI, Num(4))
        ptQ == Pt("cone.ptQ", a)
        ptT == Pt("cone.ptT", a)
    IN  [ oapAngleCompliment_rad |-> a,
          ptQ |-> ptQ,
          ptT |-> ptT,
          lineQt |-> NewLine(ptQ, ptT),
          lineAt |-> NewLine(origin, ptT) ]

NewArchytasBaseCircle ==
    LET diameterEnd == Pt("baseCircle.diameterEnd", 0)
        ptQ == Pt("baseCircle.ptQ", Num(0))
        ptP == Pt("baseCircle.ptP", Num(0))
    IN  [ diameterEnd |-> diameterEnd,
          ptQ |-> ptQ,
          ptP |-> ptP,
          lineAp |-> NewLine(origin, ptP),
          linePq |-> NewLine(ptP, ptQ),
          linePo |-> NewLine(ptP, diameterEnd) ]

NewArchytasTransverseCircle ==
    LET a == Num(0)
        diameterEnd == Pt("diameterEnd", a)
        ptP == Pt("transverseCircle.ptP", a)
        ptR == Pt("ptR", a)
    IN  [ angleOapCompliment_rad |-> a,
          circlePlane |-> Pt("circlePlane", a),
          center |-> Pt("center", a),
          diameterEnd |-> diameterEnd,
          ptP |-> ptP,
          ptR |-> ptR,
          circle |-> Pt("circlePlane", a),
          diameter |-> NewLine(origin, diameterEnd),
          lineRa |-> NewLine(ptR, origin),
          lineRp |-> NewLine(ptR, ptP),
          lineRs |-> NewLine(ptR, diameterEnd) ]

NewArchytasModel ==
    ClearLog(
        transverseCircleUpdateLabelPositions(
            baseCircleUpdateLabelPositions(
                [ geometry |->
                      [s \in Solids |->
                          [g \in Geometries |-> NewIndexedGeometry(s, g)]],
                  connectingSliceCoords |->
                      [s \in Solids |->
                          [ sliceParameter |-> NaN,
                            needsUpdate |-> FALSE,
                            vertices |-> NewConnectingSliceCoords(s) ]],
                  cone |-> NewArchytasCone,
                  baseCircle |-> NewArchytasBaseCircle,
                  transverseCircle |-> NewArchytasTransverseCircle,
                  lineRq |-> NewLine(NewArchytasTransverseCircle.ptR,
                                     NewArchytasBaseCircle.ptQ),
                  labels |-> NewLabels,
                  consoleErrors |-> {},
                  writes |-> << >> ])))

ModelVars ==
    << geometry, connectingSliceCoords, cone, baseCircle, transverseCircle,
       lineRq, labels, consoleErrors, writes, lastCall >>

RangeVars ==
    << testRange, testStepIdx, testValue, testIdx, testSetStartEnd, rangePc >>

CameraVars ==
    << camera, cameraQ, cameraWorld, cameraProjected, cameraWarnings, cameraPc >>

ArcVars ==
    << arcHeap, arcConfig, arcCalculated, arcCamera, calculator, arcErrors,
       arcBefore, arcPc >>

MatrixVars == << matrixThis, matrixArg, matrixOut, matrixOp, matrixPc >>

ColorVars == << colorSpec, rgbaInt, cssHex, colorPc >>

AngleVars ==
    << oapCompliment, transverseCircleAngle, oapComplimentBack, anglePc >>

FootnoteVars ==
    << bodyFootmarks, footnotes, bodyFootmarkRefs, footnoteRefs,
       viewY, footmarkInViewStartIdx, footnotePc >>

SceneVars ==
    << params, renderer, model, sceneLabels, initialized, renderers >>

ThemeVars ==
    << userSelectedTheme, themesFieldSet, bodyClassList,
       themeChangeListeners, lightModeMediaQuery, osLight, notified,
       themeLastCall, userHasSelected >>

ViewVars ==
    << viewMatrix, viewColumnIdx, viewBefore, viewSet, viewGot, viewPc
       >>

vars ==
    << ModelVars, RangeVars, CameraVars, ArcVars, MatrixVars,
       ColorVars, AngleVars, FootnoteVars, SceneVars, ThemeVars,
       ViewVars >>

\* What the calls on the model, on a range and on a camera leave alone.
OutsideModel ==
    << RangeVars, CameraVars, ArcVars, MatrixVars, ColorVars,
       AngleVars, FootnoteVars, SceneVars, ThemeVars, ViewVars >>

OutsideRange ==
    << ModelVars, CameraVars, ArcVars, MatrixVars, ColorVars,
       AngleVars, FootnoteVars, SceneVars, ThemeVars, ViewVars >>

OutsideCamera ==
    << ModelVars, RangeVars, ArcVars, MatrixVars, ColorVars,
       AngleVars, FootnoteVars, SceneVars, ThemeVars, ViewVars >>

OutsideArc ==
    << ModelVars, RangeVars, CameraVars, MatrixVars, ColorVars,
       AngleVars, FootnoteVars, SceneVars, ThemeVars, ViewVars >>

OutsideMatrix ==
    << ModelVars, RangeVars, CameraVars, ArcVars, ColorVars,
       AngleVars, FootnoteVars, SceneVars, ThemeVars, ViewVars >>

OutsideColor ==
    << ModelVars, RangeVars, CameraVars, ArcVars, MatrixVars,
       AngleVars, FootnoteVars, SceneVars, ThemeVars, ViewVars >>

OutsideAngle ==
    << ModelVars, RangeVars, CameraVars, ArcVars, MatrixVars,
       ColorVars, FootnoteVars, SceneVars, ThemeVars, ViewVars >>

OutsideFootnote ==
    << ModelVars, RangeVars, CameraVars, ArcVars, MatrixVars,
       ColorVars, AngleVars, SceneVars, ThemeVars, ViewVars >>

OutsideScene ==
    << ModelVars, RangeVars, CameraVars, ArcVars, MatrixVars,
       ColorVars, AngleVars, FootnoteVars, ThemeVars, ViewVars >>

OutsideTheme ==
    << ModelVars, RangeVars, CameraVars, ArcVars, MatrixVars,
       ColorVars, AngleVars, FootnoteVars, SceneVars, ViewVars >>

OutsideView ==
    << ModelVars, RangeVars, CameraVars, ArcVars, MatrixVars,
       ColorVars, AngleVars, FootnoteVars, SceneVars, ThemeVars >>

ModelInit ==
    /\ geometry = NewArchytasModel.geometry
    /\ connectingSliceCoords = NewArchytasModel.connectingSliceCoords
    /\ cone = NewArchytasModel.cone
    /\ baseCircle = NewArchytasModel.baseCircle
    /\ transverseCircle = NewArchytasModel.transverseCircle
    /\ lineRq = NewArchytasModel.lineRq
    /\ labels = NewArchytasModel.labels
    /\ consoleErrors = NewArchytasModel.consoleErrors
    /\ writes = NewArchytasModel.writes
    /\ lastCall = [op |-> "new", value |-> NaN, repeated |-> FALSE]

RangeIdle ==
    /\ testRange = angleOapComplimentRange
    /\ testStepIdx = 0
    /\ testValue = NaN
    /\ testIdx = NaN
    /\ testSetStartEnd = << >>
    /\ rangePc = "idle"

\* The figures' camera, new PlaneCamera(new Matrix3().makeScale(1, -1)).
CameraIdle ==
    /\ camera = PlaneCamera(makeScale(Num(1), Num(-1)))
    /\ cameraQ = << 0, 0 >>
    /\ cameraWorld = << >>
    /\ cameraProjected = << >>
    /\ cameraWarnings = {}
    /\ cameraPc = "idle"

\* What the parameters p hold, vectors and range included.
Held(h, p) ==
    [ origin |-> h[p.origin],
      xHat |-> h[p.plane.xHat],
      yHat |-> h[p.plane.yHat],
      circularAngle_rad |-> h[p.circularAngle_rad],
      semiXAxis |-> p.semiXAxis,
      semiYAxis |-> p.semiYAxis,
      objects |-> p ]

\* An arc as EllipticalArc.fromCenterRadiusAngle builds it, not projected.
ArcOf(arc, cameraTransform, pc) ==
    /\ arcHeap = arc.heap
    /\ arcConfig = arc.config
    /\ arcCalculated = arc.calculated
    /\ arcCamera = cameraTransform
    /\ calculator = NewEllipticalArcConfigCalculator
    /\ arcErrors = 0
    /\ arcBefore = Held(arc.heap, arc.config)
    /\ arcPc = pc

ArcIdle ==
    ArcOf(NewEllipticalArc(<< 0, 0 >>, << One, 0 >>, << 0, One >>,
                           ConstStepRange(0, PI, 2), One, One),
          PlaneCamera(makeScale(Num(1), Num(-1))), "idle")

\* No matrix operation is called.
MatrixIdle ==
    /\ matrixThis = NewMatrixImpl(1, 1)
    /\ matrixArg = NewMatrixImpl(1, 1)
    /\ matrixOut = NewMatrixImpl(1, 1)
    /\ matrixOp = "none"
    /\ matrixPc = "idle"

\* No colour is parsed.
ColorIdle ==
    /\ colorSpec = << >>
    /\ rgbaInt = NaN
    /\ cssHex = << >>
    /\ colorPc = "idle"

AngleIdle ==
    /\ oapCompliment = Num(0)
    /\ transverseCircleAngle = NaN
    /\ oapComplimentBack = NaN
    /\ anglePc = "idle"

FootnoteIdle ==
    /\ bodyFootmarks = << >>
    /\ footnotes = << >>
    /\ bodyFootmarkRefs = [r \in {} |-> -1]
    /\ footnoteRefs = [r \in {} |-> -1]
    /\ viewY = << >>
    /\ footmarkInViewStartIdx = NaN
    /\ footnotePc = "idle"

SceneIdle ==
    /\ params = [element |-> [k \in ElementKeys |-> null], angleOap_deg |-> NaN]
    /\ renderer = 0
    /\ model = null
    /\ sceneLabels = null
    /\ initialized = FALSE
    /\ renderers = << >>

ThemeIdle ==
    /\ userSelectedTheme = null
    /\ themesFieldSet = null
    /\ bodyClassList = {"dark-theme"}
    /\ themeChangeListeners = << >>
    /\ lightModeMediaQuery = null
    /\ osLight = FALSE
    /\ notified = << >>
    /\ themeLastCall = "new"
    /\ userHasSelected = FALSE

ViewIdle ==
    /\ viewMatrix = NewMatrixImpl(1, 1)
    /\ viewColumnIdx = 0
    /\ viewBefore = NewMatrixImpl(1, 1)
    /\ viewSet = << >>
    /\ viewGot = NaN
    /\ viewPc = "idle"

Init ==
    /\ ModelInit
    /\ RangeIdle
    /\ CameraIdle
    /\ ArcIdle
    /\ MatrixIdle
    /\ ColorIdle
    /\ AngleIdle
    /\ FootnoteIdle
    /\ SceneIdle
    /\ ThemeIdle
    /\ ViewIdle

\* The angles handed to the setter: every multiple of 2.5 degrees of the
\* range, angles on either side of it, and NaN (an empty number input).
SweepTicks == {0, 5, 18, 20, 36}

OutOfRangeTicks == {-4, 48}

Values == {Num(j) : j \in SweepTicks \cup OutOfRangeTicks} \cup {NaN}

\* The program state becomes st, the call's argument v.
Becomes(st, op, v) ==
    /\ geometry' = st.geometry
    /\ connectingSliceCoords' = st.connectingSliceCoords
    /\ cone' = st.cone
    /\ baseCircle' = st.baseCircle
    /\ transverseCircle' = st.transverseCircle
    /\ lineRq' = st.lineRq
    /\ labels' = st.labels
    /\ consoleErrors' = st.consoleErrors
    /\ writes' = st.writes
    /\ lastCall' = [ op |-> op,
                     value |-> v,
                     repeated |-> lastCall.op = op /\ lastCall.value = v
                                      /\ ~IsNaN(v) ]

\* ArchytasModel.angleOapCompliment_rad (setter): the five solids take the
\* value in turn, then line RQ and the label offsets are updated; each
\* statement starts from the state the one before it left.
angleOapCompliment_rad(value) ==
    \E torusSet \in {toroidalAngle_rad(ClearLog(State), value)} :
    \E cylinderSet \in {secantAngle_rad(torusSet, value)} :
    \E coneSet \in {oapAngleCompliment_rad(cylinderSet, value)} :
    \E baseCircleSet \in {baseCircleAngleOapCompliment_rad(coneSet, value)} :
    \E transverseCircleSet \in
           {transverseCircleAngleOapCompliment_rad(baseCircleSet, value)} :
    \E lineRqSet \in {updateLineRq(transverseCircleSet)} :
    \E labelsSet \in {updateLabelPositions(lineRqSet, value)} :
        Becomes(labelsSet, "angleOapCompliment_rad", value)

\* model.angleOapCompliment_rad = v
SetAngleOapCompliment(v) ==
    /\ angleOapCompliment_rad(v)
    /\ UNCHANGED OutsideModel

Next == \E v \in Values : SetAngleOapCompliment(v)

Spec == Init /\ [][Next]_vars

(***************************************************************************)
(* The value ranges on their own: a range is built, atStep is applied to   *)
(* a step index and lastIncludedStepIdx to the value it returned.          *)
(***************************************************************************)
MaxStart == 2
MaxEnd == 4
MaxStepCount == 4

\* The step count multipliers for which every step of the transverse
\* circle's range falls on the tabulated grid.
Multipliers == {1, 2}

TestRanges ==
    {ConstStepRange(Num(s), Num(e), n) :
        s \in -MaxStart .. MaxStart, e \in -MaxStart + 1 .. MaxEnd,
        n \in 1 .. MaxStepCount}
    \cup {angleOapComplimentRange, coneOapAngleCompliment_rad,
          poloidalAngle_rad, baseCircleCentralAngle,
          radRangeFromStartEndDegStepCount(0, 180, 1)}
    \cup {TransverseCircleAngleRange(angleOapComplimentRange, m) :
             m \in Multipliers}

\* The ranges that are cloned as mutable ones.
MutableTestRanges ==
    {ConstStepRange(Num(s), Num(e), n) :
        s \in {0}, e \in 1 .. MaxEnd, n \in 1 .. MaxStepCount}

RangeInit ==
    /\ ModelInit
    /\ CameraIdle
    /\ ArcIdle
    /\ MatrixIdle
    /\ ColorIdle
    /\ AngleIdle
    /\ FootnoteIdle
    /\ SceneIdle
    /\ ThemeIdle
    /\ ViewIdle
    /\ testRange \in {r \in TestRanges : r.start < r.end}
                      \cup {cloneAsMutable(r) : r \in MutableTestRanges}
    /\ testStepIdx \in 0 .. testRange.stepCount
    /\ testValue = NaN
    /\ testIdx = NaN
    /\ testSetStartEnd = << >>
    /\ rangePc = "atStep"

\* testValue = testRange.atStep(testStepIdx)
RangeAtStep ==
    /\ rangePc = "atStep"
    /\ testValue' = atStep(testRange, testStepIdx)
    /\ rangePc' = "lastIncludedStepIdx"
    /\ UNCHANGED << OutsideRange, testRange, testStepIdx, testIdx, testSetStartEnd >>

\* testIdx = testRange.lastIncludedStepIdx(testValue)
RangeLastIncludedStepIdx ==
    /\ rangePc = "lastIncludedStepIdx"
    /\ testIdx' = lastIncludedStepIdx(testRange, testValue)
    /\ rangePc' = "done"
    /\ UNCHANGED << OutsideRange, testRange, testStepIdx, testValue, testSetStartEnd >>

\* testRange.setStartEnd(start, end), on a mutable range as constructed
RangeSetStartEnd ==
    /\ rangePc = "atStep"
    /\ testRange.kind = "MutableConstStepRange"
    /\ testSetStartEnd = << >>
    /\ \E start \in -MaxStart .. MaxStart, end \in -MaxStart + 1 .. MaxEnd :
          /\ testRange' = setStartEnd(testRange, Num(start), Num(end))
          /\ testSetStartEnd' = << Num(start), Num(end) >>
    /\ UNCHANGED << OutsideRange, testStepIdx, testValue, testIdx, rangePc >>

RangeNext == RangeAtStep \/ RangeLastIncludedStepIdx \/ RangeSetStartEnd

RangeSpec == RangeInit /\ [][RangeNext]_vars

(***************************************************************************)
(* The cameras on their own: a camera is built, projectionToWorld is       *)
(* applied to a point of its projection plane and project to the result,   *)
(* or project is applied to a world point at any depth.                    *)
(***************************************************************************)
\* Elements of the plane cameras' transforms and coordinates of the points.
Scales == {-1, 1, 2}
Shears == {0, 1}
Translations == {0, 1}
HomogenousCoords == {1, 2}
Coords == -1 .. 1

\* The 2 by 2 determinant of a plane camera's transform.
Det2(t) == fsub(fmul(t[1][1], t[2][2]), fmul(t[1][2], t[2][1]))

\* The transforms PlaneCamera's constructor accepts and that have an inverse.
CameraTransforms ==
    {t \in {<< << Num(a), Num(b), Num(x) >>, << Num(c), Num(d), Num(y) >>,
               << 0, 0, Num(w) >> >> :
                a \in Scales, d \in Scales, b \in Shears, c \in Shears,
                x \in Translations, y \in Translations,
                w \in HomogenousCoords} :
        validateCameraTransform(t) /\ Det2(t) # 0}

\* The perspective cameras: a world position, any of the axes flipped, a
\* focal distance.
PerspectiveCameras ==
    {LET c == ProjectionPlaneCamera(<< Num(x), Num(y), Num(z) >>)
         cx == IF fx THEN flipXAxis(c) ELSE c
         cy == IF fy THEN flipYAxis(cx) ELSE cx
         cz == IF fz THEN flipZAxis(cy) ELSE cy
     IN  setFocalDistance(cz, Num(f)) :
        x \in Translations, y \in Translations, z \in Scales,
        fx \in BOOLEAN, fy \in BOOLEAN, fz \in BOOLEAN, f \in HomogenousCoords}

CameraInit ==
    /\ ModelInit
    /\ RangeIdle
    /\ ArcIdle
    /\ MatrixIdle
    /\ ColorIdle
    /\ AngleIdle
    /\ FootnoteIdle
    /\ SceneIdle
    /\ ThemeIdle
    /\ ViewIdle
    /\ camera \in {PlaneCamera(t) : t \in CameraTransforms} \cup PerspectiveCameras
    /\ cameraQ \in IF camera.kind = "PlaneCamera"
                    THEN {<< Num(x), Num(y) >> : x \in Coords, y \in Coords}
                    ELSE {<< Num(x), Num(y), 0 >> : x \in Coords, y \in Coords}
    /\ cameraWorld = << >>
    /\ cameraProjected = << >>
    /\ cameraWarnings = {}
    /\ cameraPc = "projectionToWorld"

\* cameraWorld = camera.projectionToWorld(cameraQ, out)
CameraProjectionToWorld ==
    /\ cameraPc = "projectionToWorld"
    /\ cameraWorld' = projectionToWorld(camera, cameraQ)
    /\ cameraPc' = "project"
    /\ UNCHANGED << OutsideCamera, camera, cameraQ, cameraProjected,
                    cameraWarnings >>

\* cameraProjected = camera.project(cameraWorld)
CameraProject ==
    /\ cameraPc = "project"
    /\ cameraProjected' = project(camera, cameraWorld)
    /\ cameraWarnings' = projectWarnings(camera, cameraWorld)
    /\ cameraPc' = "done"
    /\ UNCHANGED << OutsideCamera, camera, cameraQ, cameraWorld >>

\* The depths of the world points handed to project: behind, at and before
\* the cameras, nearer and farther than minDistanceFromCamera.
Depths ==
    {Num(-2), Num(0), fdiv(Num(15), Num(16)), Num(1), fdiv(Num(17), Num(16)),
     fdiv(Num(3), Num(2)), Num(3)}

\* cameraProjected = camera.project(p) of a perspective camera, for a world
\* point p of any depth.
CameraProjectPoint ==
    /\ cameraPc = "projectionToWorld"
    /\ camera.kind = "ProjectionPlaneCamera"
    /\ \E x \in Translations, z \in Depths :
           /\ cameraWorld' = << Num(x), Num(1), z >>
           /\ cameraProjected' = project(camera, << Num(x), Num(1), z >>)
           /\ cameraWarnings' =
                  projectWarnings(camera, << Num(x), Num(1), z >>)
    /\ cameraPc' = "projected"
    /\ UNCHANGED << OutsideCamera, camera, cameraQ >>

CameraNext == CameraProjectionToWorld \/ CameraProject \/ CameraProjectPoint

CameraSpec == CameraInit /\ [][CameraNext]_vars

(***************************************************************************)
(* The projector on its own: an arc is built and projected to a camera by  *)
(* EllipticalArc.transformedConfig, stage by stage.                        *)
(***************************************************************************)
\* How much shorter than 2 the x semi-axis of a nearly circular ellipse is,
\* in units of the last place.
NearCircle == 49 .. 51

SemiXAxes == {0, Num(1), Num(2)} \cup {Num(2) - k : k \in NearCircle}

SemiYAxes == {0, Num(2)}

CircularAngles ==
    {ConstStepRange(0, HalfPI, 1), ConstStepRange(0, PI, 2), ConstStepRange(PI, 0, 2)}

\* Arcs in space, in the plane z = 0 or in a plane through the camera's
\* axis, and the perspective cameras looking at them.
Arcs3 ==
    {NewEllipticalArc(<< 0, Num(y), 0 >>, << One, 0, 0 >>,
                      IF y = 0 THEN << 0, One, 0 >> ELSE << 0, 0, One >>,
                      range, semiXAxis, semiYAxis) :
        y \in {0, 1}, range \in CircularAngles,
        semiXAxis \in SemiXAxes, semiYAxis \in SemiYAxes}

Cameras3 == {ProjectionPlaneCamera(<< 0, 0, Num(z) >>) : z \in 0 .. 2}

\* Arcs of the plane figures and their cameras.
Arcs2 ==
    {NewEllipticalArc(<< Num(x), Num(x) >>, << One, 0 >>, << 0, One >>,
                      range, semiXAxis, semiYAxis) :
        x \in {0, 1}, range \in CircularAngles,
        semiXAxis \in {0, Num(1), Num(2)}, semiYAxis \in SemiYAxes}

Cameras2 == {PlaneCamera(makeScale(Num(1), Num(-1))), PlaneCamera(NewMatrix3)}

ArcInit ==
    /\ ModelInit
    /\ RangeIdle
    /\ CameraIdle
    /\ MatrixIdle
    /\ ColorIdle
    /\ AngleIdle
    /\ FootnoteIdle
    /\ SceneIdle
    /\ ThemeIdle
    /\ ViewIdle
    /\ \/ \E arc \in Arcs3, cameraTransform \in Cameras3 :
             ArcOf(arc, cameraTransform, "projectToCamera")
       \/ \E arc \in Arcs2, cameraTransform \in Cameras2 :
             ArcOf(arc, cameraTransform, "projectToCamera")

\* projectToCamera takes the non-perspective path.
isNonPerspective ==
    Len(arcHeap[arcConfig.origin]) # 3 \/ arcCamera.kind # "ProjectionPlaneCamera"

\* projectToCamera, non-perspective path: projectNonPerspective
ArcProjectNonPerspective ==
    /\ arcPc = "projectToCamera"
    /\ isNonPerspective
    /\ \E projectedOrigin \in {project(arcCamera, arcHeap[arcConfig.origin])} :
       \E projected \in {projectNonPerspective(arcHeap, arcConfig, arcCamera,
                                                arcCalculated, projectedOrigin)} :
          /\ arcHeap' = projected.heap
          /\ arcCalculated' = projected.out
    /\ arcPc' = "returned"
    /\ UNCHANGED << OutsideArc, arcConfig, arcCamera, calculator, arcErrors, arcBefore >>

\* projectToCamera, perspective path: calcSkewedConeInInputEllipseFrame
ArcCalcSkewedConeInInputEllipseFrame ==
    /\ arcPc = "projectToCamera"
    /\ ~isNonPerspective
    /\ \E skewed \in {calcSkewedConeInInputEllipseFrame(arcHeap, arcConfig, arcCamera,
                                                       calculator)} :
          /\ calculator' = skewed.calculator
          /\ arcPc' = IF skewed.result = "Finite" THEN "calcConeInWorldFrame"
                      ELSE "calcDegenerateProjection"
    /\ UNCHANGED << OutsideArc, arcHeap, arcConfig, arcCalculated, arcCamera,
                    arcErrors, arcBefore >>

ArcCalcConeInWorldFrame ==
    /\ arcPc = "calcConeInWorldFrame"
    /\ calculator' = calcConeInWorldFrame(calculator)
    /\ arcPc' = "calcProjectedEllipseConicEq"
    /\ UNCHANGED << OutsideArc, arcHeap, arcConfig, arcCalculated, arcCamera,
                    arcErrors, arcBefore >>

ArcCalcProjectedEllipseConicEq ==
    /\ arcPc = "calcProjectedEllipseConicEq"
    /\ calculator' = calcProjectedEllipseConicEq(arcCamera, calculator)
    /\ arcPc' = "calcProjectedEllipseMatrixEq"
    /\ UNCHANGED << OutsideArc, arcHeap, arcConfig, arcCalculated, arcCamera,
                    arcErrors, arcBefore >>

ArcCalcProjectedEllipseMatrixEq ==
    /\ arcPc = "calcProjectedEllipseMatrixEq"
    /\ calculator' = calcProjectedEllipseMatrixEq(calculator)
    /\ arcPc' = "calcPerspectiveProjection"
    /\ UNCHANGED << OutsideArc, arcHeap, arcConfig, arcCalculated, arcCamera,
                    arcErrors, arcBefore >>

\* calcPerspectiveProjection: it returns, or throws with the origin and the
\* semi-axes already written.
ArcCalcPerspectiveProjection ==
    /\ arcPc = "calcPerspectiveProjection"
    /\ \E eigenvalues \in {getEigenValues(calculator.ellipseEqM_p)} :
       \E written \in {perspectiveOriginAndAxes(arcHeap, calculator, arcCalculated,
                                                eigenvalues)} :
       \E axes \in {axisDirections(
                        getEigenvectorForEigenvalue(calculator.ellipseEqM_p,
                                                    eigenvalues[1]),
                        getEigenvectorForEigenvalue(calculator.ellipseEqM_p,
                                                    eigenvalues[2]),
                        calculator.projectionPlaneBasis2)} :
          /\ arcErrors' = arcErrors + eigenvalueErrors(eigenvalues)
          /\ arcCalculated' = written.out
          /\ IF axes.threw
             THEN /\ arcHeap' = written.heap
                  /\ arcPc' = "threw"
             ELSE \E planeSet \in {[written.heap EXCEPT
                                       ![written.out.plane.xHat] = axes.xHat,
                                       ![written.out.plane.yHat] = axes.yHat]} :
                  \E angles \in {circularAngles(planeSet, arcConfig, arcCamera,
                                                written.out)} :
                      /\ arcHeap' = projectCircularAngle(planeSet, arcConfig,
                                                         written.out, angles)
                      /\ arcPc' = "returned"
    /\ UNCHANGED << OutsideArc, arcConfig, arcCamera, calculator, arcBefore >>

\* calcDegenerateProjection
ArcCalcDegenerateProjection ==
    /\ arcPc = "calcDegenerateProjection"
    /\ \E ends \in {projectedDiameterEnds(arcHeap, arcConfig, arcCamera)} :
       \E written \in {degenerateOriginAndAxes(arcHeap, arcCamera, arcCalculated,
                                               ends)} :
       \E angles \in {circularAngles(written.heap, arcConfig, arcCamera,
                                     written.out)} :
          /\ arcHeap' = projectCircularAngle(written.heap, arcConfig, written.out,
                                             angles)
          /\ arcCalculated' = written.out
    /\ arcPc' = "returned"
    /\ UNCHANGED << OutsideArc, arcConfig, arcCamera, calculator, arcErrors, arcBefore >>

ArcNext ==
    \/ ArcProjectNonPerspective
    \/ ArcCalcSkewedConeInInputEllipseFrame
    \/ ArcCalcConeInWorldFrame
    \/ ArcCalcProjectedEllipseConicEq
    \/ ArcCalcProjectedEllipseMatrixEq
    \/ ArcCalcPerspectiveProjection
    \/ ArcCalcDegenerateProjection

ArcSpec == ArcInit /\ [][ArcNext]_vars

(***************************************************************************)
(* The matrix operations on their own: one operation is called on          *)
(* matrices of any dimensions.                                             *)
(***************************************************************************)
MaxDim == 2

Dims == 1 .. MaxDim

Elements == {Num(0), Num(1), Num(2)}

\* Every matrix of these dimensions and elements.
Matrices ==
    UNION {{MatrixImpl(r, c, components) : components \in [1 .. r * c -> Elements]} :
           r \in Dims, c \in Dims}

\* One matrix of each dimension, its elements 1, 2, ... down the columns.
Counting(rowCount, columnCount) ==
    MatrixImpl(rowCount, columnCount, [k \in 1 .. rowCount * columnCount |-> Num(k)])

MatrixInit ==
    /\ ModelInit
    /\ RangeIdle
    /\ CameraIdle
    /\ ArcIdle
    /\ ColorIdle
    /\ AngleIdle
    /\ FootnoteIdle
    /\ SceneIdle
    /\ ThemeIdle
    /\ ViewIdle
    /\ matrixThis \in Matrices
    /\ matrixArg \in {Counting(r, c) : r \in Dims, c \in Dims}
    /\ matrixOut \in {NewMatrixImpl(r, c) : r \in Dims, c \in Dims}
    /\ matrixOp = "none"
    /\ matrixPc = "call"

\* What a call leaves: the operation, and whether it returned or threw.
Called(op, call) ==
    /\ matrixOp' = op
    /\ matrixPc' = IF call.threw THEN "threw" ELSE "returned"

\* matrixThis.multiply(matrixArg, matrixOut)
MatrixMultiply ==
    /\ matrixPc = "call"
    /\ \E call \in {matrixMultiply(matrixThis, matrixArg, matrixOut)} :
          /\ matrixOut' = call.result
          /\ Called("multiply", call)
    /\ UNCHANGED << OutsideMatrix, matrixThis, matrixArg >>

\* matrixThis.dot(matrixArg, matrixOut)
MatrixDot ==
    /\ matrixPc = "call"
    /\ \E call \in {matrixDot(matrixThis, matrixArg, matrixOut)} :
          /\ matrixOut' = call.result
          /\ Called("dot", call)
    /\ UNCHANGED << OutsideMatrix, matrixThis, matrixArg >>

\* matrixOut = matrixThis.clone().add(matrixArg)
MatrixAdd ==
    /\ matrixPc = "call"
    /\ \E call \in {matrixAdd(matrixThis, matrixArg)} :
          /\ matrixOut' = call.result
          /\ Called("add", call)
    /\ UNCHANGED << OutsideMatrix, matrixThis, matrixArg >>

\* matrixOut = matrixThis.clone().invert(), matrixThis being a Matrix2
MatrixInvert ==
    /\ matrixPc = "call"
    /\ matrixThis.rowCount = 2
    /\ matrixThis.columnCount = 2
    /\ \E call \in {matrixInvert(matrixThis)} :
          /\ matrixOut' = call.result
          /\ Called("invert", call)
    /\ UNCHANGED << OutsideMatrix, matrixThis, matrixArg >>

MatrixNext ==
    \/ MatrixMultiply
    \/ MatrixDot
    \/ MatrixAdd
    \/ MatrixInvert

MatrixSpec == MatrixInit /\ [][MatrixNext]_vars

(***************************************************************************)
(* Colours on their own: a string is parsed by Color.fromCssColor and the  *)
(* colour it returns is written back by toCssHex.                          *)
(***************************************************************************)
MaxDigits == 8

\* Two digits, one of them the greatest, and a letter that is no digit.
Characters == {"0", "f", "g"}

\* Every string of up to MaxDigits of these characters.
Bodies == UNION {[1 .. n -> Characters] : n \in 0 .. MaxDigits}

\* Those strings with and without the '#' before them, and strings with
\* signs, white space and upper-case digits.
ColorSpecs ==
    {<< "#" >> \o body : body \in Bodies} \cup Bodies \cup
    { << "#", "-", "f", "-", "f", "-", "f" >>,
      << "#", " ", "f", " ", "f", " ", "f" >>,
      << "#", "F", "0", "0", "F", "A", "b" >>,
      << "#", "1", "2", "3" >>,
      << "#", "1", "0", "2", "a", "3", "b", "4", "c" >> }

ColorInit ==
    /\ ModelInit
    /\ RangeIdle
    /\ CameraIdle
    /\ ArcIdle
    /\ MatrixIdle
    /\ AngleIdle
    /\ FootnoteIdle
    /\ SceneIdle
    /\ ThemeIdle
    /\ ViewIdle
    /\ colorSpec \in ColorSpecs
    /\ rgbaInt = NaN
    /\ cssHex = << >>
    /\ colorPc = "fromCssColor"

\* Color.fromCssColor(colorSpec)
ColorFromCssColor ==
    /\ colorPc = "fromCssColor"
    /\ \E call \in {fromCssColor(colorSpec)} :
          /\ rgbaInt' = call.rgbaInt
          /\ colorPc' = IF call.threw THEN "threw" ELSE "toCssHex"
    /\ UNCHANGED << OutsideColor, colorSpec, cssHex >>

\* color.toCssHex()
ColorToCssHex ==
    /\ colorPc = "toCssHex"
    /\ cssHex' = toCssHex(rgbaInt)
    /\ colorPc' = "returned"
    /\ UNCHANGED << OutsideColor, colorSpec, rgbaInt >>

ColorNext ==
    \/ ColorFromCssColor
    \/ ColorToCssHex

ColorSpec == ColorInit /\ [][ColorNext]_vars

(***************************************************************************)
(* The transverse circle's angle conversions on their own: an angle is     *)
(* converted by fromAngleOapCompliment_rad and the result converted back   *)
(* by toAngleOapCompliment_rad.                                            *)
(***************************************************************************)
\* The angles converted: the multiples of 2.5 degrees from 0 to PI.
ComplimentTicks == 0 .. 72

AngleInit ==
    /\ ModelInit
    /\ RangeIdle
    /\ CameraIdle
    /\ ArcIdle
    /\ MatrixIdle
    /\ ColorIdle
    /\ FootnoteIdle
    /\ SceneIdle
    /\ ThemeIdle
    /\ ViewIdle
    /\ oapCompliment \in {Num(j) : j \in ComplimentTicks}
    /\ transverseCircleAngle = NaN
    /\ oapComplimentBack = NaN
    /\ anglePc = "fromAngleOapCompliment_rad"

\* transverseCircleAngle =
\*     TransverseCircleAngleRange.fromAngleOapCompliment_rad(oapCompliment)
AngleFromAngleOapCompliment ==
    /\ anglePc = "fromAngleOapCompliment_rad"
    /\ transverseCircleAngle' = fromAngleOapCompliment_rad(oapCompliment)
    /\ anglePc' = "toAngleOapCompliment_rad"
    /\ UNCHANGED << OutsideAngle, oapCompliment, oapComplimentBack >>

\* oapComplimentBack =
\*     TransverseCircleAngleRange.toAngleOapCompliment_rad(transverseCircleAngle)
AngleToAngleOapCompliment ==
    /\ anglePc = "toAngleOapCompliment_rad"
    /\ oapComplimentBack' = toAngleOapCompliment_rad(transverseCircleAngle)
    /\ anglePc' = "done"
    /\ UNCHANGED << OutsideAngle, oapCompliment, transverseCircleAngle >>

AngleNext == AngleFromAngleOapCompliment \/ AngleToAngleOapCompliment

AngleSpec == AngleInit /\ [][AngleNext]_vars

(***************************************************************************)
(* The footnotes on their own: React hands elements and nulls to the ref   *)
(* objects of the footnotes of a page, then the page is scrolled.          *)
(***************************************************************************)
\* The footnotes of the page, and the longest arrays of footmarks and of
\* footnotes the updater is let grow to.
MaxFootnotes == 3
MaxFootmarks == 3
MaxFootnoteDivs == 2

FootnoteNumbers == 1 .. MaxFootnotes

\* The views scrolled to: where they start, and how tall they are.
ViewStarts == {0, 12, 22, 27, 50}
ViewHeights == {3, 30}

FootnoteInit ==
    /\ ModelInit
    /\ RangeIdle
    /\ CameraIdle
    /\ ArcIdle
    /\ MatrixIdle
    /\ ColorIdle
    /\ AngleIdle
    /\ SceneIdle
    /\ ThemeIdle
    /\ ViewIdle
    /\ bodyFootmarks = << >>
    /\ footnotes = << >>
    /\ bodyFootmarkRefs = [r \in FootnoteNumbers |-> -1]
    /\ footnoteRefs = [r \in FootnoteNumbers |-> -1]
    /\ viewY = << >>
    /\ footmarkInViewStartIdx = NaN
    /\ footnotePc = "mounting"

\* bodyFootmarkRef.current = node, for the footmark of footnote r or null
FootnoteSetBodyFootmarkRef ==
    /\ footnotePc = "mounting"
    /\ \E r \in FootnoteNumbers :
       \E node \in {<< "footmark", r >>, undefined} :
       \E reg \in {setCurrent(Registry(bodyFootmarks, bodyFootmarkRefs),
                               r, node)} :
           /\ Len(reg.array) <= MaxFootmarks
           /\ bodyFootmarks' = reg.array
           /\ bodyFootmarkRefs' = reg.refs
    /\ UNCHANGED << OutsideFootnote, footnotes, footnoteRefs, viewY,
                    footmarkInViewStartIdx, footnotePc >>

\* footnoteRef.current = node, for the div of footnote r or null
FootnoteSetFootnoteRef ==
    /\ footnotePc = "mounting"
    /\ \E r \in FootnoteNumbers :
       \E node \in {<< "footnote", r >>, undefined} :
       \E reg \in {setCurrent(Registry(footnotes, footnoteRefs), r, node)} :
           /\ Len(reg.array) <= MaxFootnoteDivs
           /\ footnotes' = reg.array
           /\ footnoteRefs' = reg.refs
    /\ UNCHANGED << OutsideFootnote, bodyFootmarks, bodyFootmarkRefs, viewY,
                    footmarkInViewStartIdx, footnotePc >>

\* getFootmarkInViewStartIdx(viewStartY, viewEndY), as handleScroll calls it
FootnoteGetFootmarkInViewStartIdx ==
    /\ footnotePc = "mounting"
    /\ \E viewStartY \in ViewStarts, height \in ViewHeights :
           /\ viewY' = << viewStartY, viewStartY + height >>
           /\ footmarkInViewStartIdx' =
                  getFootmarkInViewStartIdx(bodyFootmarks, viewStartY,
                                            viewStartY + height)
    /\ footnotePc' = "scrolled"
    /\ UNCHANGED << OutsideFootnote, bodyFootmarks, footnotes,
                    bodyFootmarkRefs, footnoteRefs >>

FootnoteNext ==
    \/ FootnoteSetBodyFootmarkRef
    \/ FootnoteSetFootnoteRef
    \/ FootnoteGetFootmarkInViewStartIdx

FootnoteSpec == FootnoteInit /\ [][FootnoteNext]_vars

(***************************************************************************)
(* SceneSpec: the ref callbacks of ArchytasModelWidget hand elements and   *)
(* null to one ArchytasSceneUpdater in any order, ArchytasControls renders *)
(* with an angle, and animate, unanimate and the browser's animation       *)
(* frames act on the renderers there are.                                  *)
(***************************************************************************)
MaxRenderers == 2
MaxFrameRequests == 2
AnglesOap_deg == {0, 90}

Updater ==
    [ params |-> params, renderer |-> renderer, model |-> model,
      labels |-> sceneLabels, initialized |-> initialized,
      renderers |-> renderers ]

SceneInit ==
    /\ SceneIdle
    /\ ThemeIdle
    /\ ViewIdle
    /\ ModelInit
    /\ RangeIdle
    /\ CameraIdle
    /\ ArcIdle
    /\ MatrixIdle
    /\ ColorIdle
    /\ AngleIdle
    /\ FootnoteIdle
    /\ ThemeIdle
    /\ ViewIdle

\* ref={(node) => { sceneUpdater.params.<key> = node;
\*                  sceneUpdater.tryInitialize(); }}
SceneRef ==
    \E key \in ElementKeys :
        \E node \in {null, << "div", key >>} :
        \E u \in {tryInitialize([Updater EXCEPT
                                     !.params.element[key] = node])} :
            /\ Len(u.renderers) <= MaxRenderers
            /\ params' = u.params
            /\ renderer' = u.renderer
            /\ model' = u.model
            /\ sceneLabels' = u.labels
            /\ initialized' = u.initialized
            /\ renderers' = u.renderers
            /\ UNCHANGED OutsideScene

\* ArchytasControls renders: sceneUpdater.params.angleOap_deg = angleAop_deg.
SceneRenderControls ==
    \E deg \in AnglesOap_deg :
        /\ params' = [params EXCEPT !.angleOap_deg = deg]
        /\ UNCHANGED << renderer, model, sceneLabels, initialized, renderers >>
        /\ UNCHANGED OutsideScene

RendererAnimate ==
    \E i \in DOMAIN renderers :
        /\ animate(renderers[i]).frameRequests <= MaxFrameRequests
        /\ renderers' = [renderers EXCEPT ![i] = animate(@)]
        /\ UNCHANGED << params, renderer, model, sceneLabels, initialized >>
        /\ UNCHANGED OutsideScene

RendererUnanimate ==
    \E i \in DOMAIN renderers :
        /\ renderers' = [renderers EXCEPT ![i] = unanimate(@)]
        /\ UNCHANGED << params, renderer, model, sceneLabels, initialized >>
        /\ UNCHANGED OutsideScene

\* The browser calls one requested renderFrame.
RendererFrame ==
    \E i \in DOMAIN renderers :
        /\ renderers[i].frameRequests > 0
        /\ renderers' = [renderers EXCEPT ![i] = renderFrame(@, 1)]
        /\ UNCHANGED << params, renderer, model, sceneLabels, initialized >>
        /\ UNCHANGED OutsideScene

SceneNext ==
    \/ SceneRef
    \/ SceneRenderControls
    \/ RendererAnimate
    \/ RendererUnanimate
    \/ RendererFrame

SceneSpec == SceneInit /\ [][SceneNext]_vars

(***************************************************************************)
(* ThemeSpec: the fieldset of ColorThemeMenu mounts and unmounts, the user *)
(* picks themes, the OS changes its colour scheme, and listeners are added *)
(* and removed, in any order.                                              *)
(***************************************************************************)
MaxListeners == 2
Listeners == 1 .. MaxListeners

ThemeUpdater ==
    [ userSelectedTheme |-> userSelectedTheme,
      themesFieldSet |-> themesFieldSet,
      bodyClassList |-> bodyClassList,
      themeChangeListeners |-> themeChangeListeners,
      lightModeMediaQuery |-> lightModeMediaQuery,
      osLight |-> osLight,
      notified |-> << >> ]

ThemeInit ==
    /\ ThemeIdle
    /\ ViewIdle
    /\ ModelInit
    /\ RangeIdle
    /\ CameraIdle
    /\ ArcIdle
    /\ MatrixIdle
    /\ ColorIdle
    /\ AngleIdle
    /\ FootnoteIdle
    /\ SceneIdle
    /\ ViewIdle

\* The state after a call that left the updater as t.
ThemeBecomes(t) ==
    /\ userSelectedTheme' = t.userSelectedTheme
    /\ themesFieldSet' = t.themesFieldSet
    /\ bodyClassList' = t.bodyClassList
    /\ themeChangeListeners' = t.themeChangeListeners
    /\ lightModeMediaQuery' = t.lightModeMediaQuery
    /\ osLight' = t.osLight
    /\ notified' = t.notified
    /\ userHasSelected' =
           (userHasSelected \/ themeLastCall' = "handleUserSelect")
    /\ UNCHANGED OutsideTheme

\* <fieldset ref={(node) => { themeUpdater.setThemesFieldSet(node); }}>
ThemeSetThemesFieldSet ==
    \E node \in {null, NewFieldSet} :
        /\ themeLastCall' = "setThemesFieldSet"
        /\ ThemeBecomes(setThemesFieldSet(ThemeUpdater, node))

\* onInput of a radio input of the menu.
ThemeHandleUserSelect ==
    \E themeName \in allowedThemeNames :
        /\ themeLastCall' = "handleUserSelect"
        /\ ThemeBecomes(handleUserSelect(ThemeUpdater, themeName))

\* The OS changes its colour scheme: the media query calls its change
\* listeners.
ThemeDarkModeOsChange ==
    \E t \in {[ThemeUpdater EXCEPT !.osLight = ~osLight]} :
        /\ themeLastCall' = "osChange"
        /\ IF /\ lightModeMediaQuery # null
              /\ "handleDarkModeOsChange" \in lightModeMediaQuery[2]
               THEN ThemeBecomes(handleDarkModeOsChange(t))
               ELSE ThemeBecomes(t)

ThemeAddEventListener ==
    \E listener \in Listeners :
        /\ Len(themeChangeListeners) < MaxListeners
        /\ themeLastCall' = "addEventListener"
        /\ ThemeBecomes([ThemeUpdater EXCEPT !.themeChangeListeners =
                                                 Append(@, listener)])

ThemeRemoveEventListener ==
    \E listener \in Listeners :
        LET found == {i \in 1 .. Len(themeChangeListeners) :
                         themeChangeListeners[i] = listener}
            idx == IF found = {} THEN -1
                   ELSE (CHOOSE i \in found : \A j \in found : i <= j) - 1
        IN  /\ themeLastCall' = "removeEventListener"
            /\ ThemeBecomes(IF idx >= 0
                                THEN [ThemeUpdater EXCEPT
                                         !.themeChangeListeners =
                                             splice(@, idx)]
                                ELSE ThemeUpdater)

ThemeNext ==
    \/ ThemeSetThemesFieldSet
    \/ ThemeHandleUserSelect
    \/ ThemeDarkModeOsChange
    \/ ThemeAddEventListener
    \/ ThemeRemoveEventListener

ThemeSpec == ThemeInit /\ [][ThemeNext]_vars

(***************************************************************************)
(* ViewSpec: a MatrixColumnAsVector onto any column of any matrix has one  *)
(* component set and then read.                                            *)
(***************************************************************************)
ViewValues == Elements \cup {Num(3)}

ViewInit ==
    /\ ModelInit
    /\ RangeIdle
    /\ CameraIdle
    /\ ArcIdle
    /\ MatrixIdle
    /\ ColorIdle
    /\ AngleIdle
    /\ FootnoteIdle
    /\ SceneIdle
    /\ ThemeIdle
    /\ viewMatrix \in Matrices
    /\ viewColumnIdx \in 0 .. viewMatrix.columnCount - 1
    /\ viewBefore = viewMatrix
    /\ viewSet = << >>
    /\ viewGot = NaN
    /\ viewPc = "new"

View == MatrixColumnAsVector(viewMatrix, viewColumnIdx)

\* view.setComponent(componentIndex, value)
ViewSetComponent ==
    /\ viewPc = "new"
    /\ \E componentIndex \in 0 .. View.componentCount - 1, value \in ViewValues :
          /\ viewSet' = << componentIndex, value >>
          /\ viewMatrix' = setComponent(View, componentIndex, value)
    /\ viewBefore' = viewMatrix
    /\ viewPc' = "set"
    /\ UNCHANGED << OutsideView, viewColumnIdx, viewGot >>

\* view.getComponent(componentIndex), of the component just set
ViewGetComponent ==
    /\ viewPc = "set"
    /\ viewGot' = getComponent(View, viewSet[1])
    /\ viewPc' = "got"
    /\ UNCHANGED << OutsideView, viewMatrix, viewColumnIdx, viewBefore, viewSet >>

ViewNext ==
    \/ ViewSetComponent
    \/ ViewGetComponent

ViewSpec == ViewInit /\ [][ViewNext]_vars

(***************************************************************************)
(* Properties of the sliced solids                                         *)
(***************************************************************************)
SetterCalled == lastCall.op = "angleOapCompliment_rad"

\* The end of a geometry's draw range, in slices; THREE's initial draw
\* range draws every slice there is.
RevealedEndSliceIndex(s, g) ==
    IF geometry[s][g].drawCount = Infinity THEN calculatedSliceCount(s)
    ELSE (geometry[s][g].drawStart + geometry[s][g].drawCount)
             \div vertexIdxCount(s, g)

\* The last two sets were both within the range of s and the later value is
\* the greater one.
IncreasingSets(s) ==
    /\ SetterCalled
    /\ lastCall'.op = "angleOapCompliment_rad"
    /\ includes(configRange(s), lastCall.value)
    /\ includes(configRange(s), lastCall'.value)
    /\ lastCall'.value > lastCall.value

\* C1: for each sliced solid, from one set to the next of a sequence of
\* increasing in-range sweep values, the end slice of the surface and of the
\* wireframe draw range never decreases.
C1_RevealNeverDecreases ==
    [][\A s \in Solids, g \in Geometries :
          IncreasingSets(s) =>
              RevealedEndSliceIndex(s, g)' >= RevealedEndSliceIndex(s, g)]_vars

FiveSolids == Solids \cup {"baseCircle", "transverseCircle"}

\* The geometry of s is the one calculated for angle v.
Shows(s, v) ==
    /\ ~IsNaN(v)
    /\ CASE s \in {"torus", "cylinder"} ->
              /\ connectingSliceCoords[s].sliceParameter = v
              /\ geometry[s]["surface"].endSliceIndex =
                     lastIncludedStepIdx(configRange(s), v)
         [] s = "cone" ->
              /\ connectingSliceCoords[s].sliceParameter = v
              /\ geometry[s]["surface"].endSliceIndex =
                     lastIncludedStepIdx(configRange(s), v)
              /\ cone.ptQ.at = v /\ cone.ptT.at = v
              /\ cone.lineQt = << cone.ptQ, cone.ptT >>
         [] s = "baseCircle" ->
              /\ baseCircle.ptP.at = v /\ baseCircle.ptQ.at = v
              /\ baseCircle.linePq = << baseCircle.ptP, baseCircle.ptQ >>
         [] s = "transverseCircle" ->
              /\ transverseCircle.ptR.at = v /\ transverseCircle.circle.at = v
              /\ transverseCircle.lineRs =
                     << transverseCircle.ptR, transverseCircle.diameterEnd >>

\* C2: after every assignment to ArchytasModel.angleOapCompliment_rad the
\* five solids agree on the angle assigned: if any of them shows the new
\* angle, all of them do.
C2_SolidsShowTheSameAngle ==
    SetterCalled =>
        \A s1, s2 \in FiveSolids :
            Shows(s1, lastCall.value) => Shows(s2, lastCall.value)

\* What each sliced solid's setter reports to console.error.
SetterError(s) ==
    CASE s = "torus" -> <<"torus", "toroidalAngle_rad">>
      [] s = "cylinder" -> <<"cylinder", "secantAngle_rad">>
      [] s = "cone" -> <<"cone", "oapAngleCompliment_rad">>

\* The call just made wrote nothing that belongs to s.
WroteNothingOf(s) == \A n \in DOMAIN writes : writes[n][1] # s

\* C3: a set of torus, cylinder or cone to a value outside the solid's
\* configured range ends normally with an error logged by that solid, and the
\* solid's draw ranges, connecting-slice buffer and (for the cone) anchor
\* points and lines are what they were before the call.
C3_OutOfRangeSweepIsRejected ==
    [][\A s \in Solids :
          (/\ lastCall'.op = "angleOapCompliment_rad"
           /\ ~includes(configRange(s), lastCall'.value))
          => /\ SetterError(s) \in consoleErrors'
             /\ geometry'[s] = geometry[s]
             /\ connectingSliceCoords'[s] = connectingSliceCoords[s]
             /\ s = "cone" => cone' = cone
             /\ WroteNothingOf(s)']_vars

\* An out-of-range set was rejected by all three solids after each of them
\* had revealed part of its surface.
C3_Witness ==
    /\ SetterCalled
    /\ \A s \in Solids :
          /\ ~includes(configRange(s), lastCall.value)
          /\ SetterError(s) \in consoleErrors
          /\ ~IsNaN(connectingSliceCoords[s].sliceParameter)
          /\ geometry[s]["surface"].endSliceIndex > 0

\* The horizontal label offsets ArchytasModel.updateLabelPositions assigns.
LabelOffsetsNow == [l \in LabelNames |-> labels[l].relativeOffset]

\* C4: an assignment to ArchytasModel.angleOapCompliment_rad of a value
\* outside the shared range (0 to PI/2) is logged and changes nothing: the
\* three solids, the two circles, line RQ and the label offsets are what
\* they were before the call.
C4_OutOfRangeAssignmentIsIgnored ==
    [][(/\ lastCall'.op = "angleOapCompliment_rad"
        /\ ~includes(angleOapComplimentRange, lastCall'.value))
       => /\ consoleErrors' # {}
          /\ UNCHANGED << geometry, connectingSliceCoords, cone, baseCircle,
                          transverseCircle, lineRq >>
          /\ LabelOffsetsNow' = LabelOffsetsNow]_vars

\* The angle s holds: the one its setter last took, or the one it was
\* constructed with.
Holds(s, v) ==
    /\ ~IsNaN(v)
    /\ CASE s \in {"torus", "cylinder"} ->
              connectingSliceCoords[s].sliceParameter = v
         [] s = "cone" -> cone.oapAngleCompliment_rad = v
         [] s = "baseCircle" -> baseCircle.ptP.at = v
         [] s = "transverseCircle" ->
              transverseCircle.angleOapCompliment_rad = v

\* The draw ranges of s, if it has any.
DrawRanges(s) == IF s \in Solids THEN geometry[s] ELSE << >>

\* C5: a set of a solid's sweep angle to the value the solid already holds
\* changes no draw range and writes no vertex, connecting-slice or line
\* buffer of that solid.
C5_RepeatedSetIsNoOp ==
    [][\A s \in FiveSolids :
          (/\ lastCall'.op = "angleOapCompliment_rad"
           /\ Holds(s, lastCall'.value))
          => /\ DrawRanges(s)' = DrawRanges(s)
             /\ \A n \in DOMAIN writes' :
                   writes'[n][1] = s =>
                       writes'[n][2] \in Geometries]_vars

\* The angles the vertices in slots first .. first + count - 1 of the
\* connecting slice of s were calculated for.
GeneratrixAngles(s, first, count) ==
    {Slot(connectingSliceCoords[s].vertices, j).at :
        j \in first .. first + count - 1}

\* The solid s reveals the sweep from the start of its range to v: whole
\* slices up to the last step boundary not beyond v, then one wedge whose
\* two generatrices are the one of that boundary and the one at v.
RevealsUpTo(s, v) ==
    LET boundary == lastIncludedStepIdx(configRange(s), v)
        shared == sharedVertexCount(s)
        count == maxVertexCount(s)
    IN  /\ geometry[s]["surface"].drawStart = 0
        /\ RevealedEndSliceIndex(s, "surface") = boundary
        /\ geometry[s]["surface"].endSliceIndex = boundary
        /\ RevealedEndSliceIndex(s, "wireframe") =
               IF boundary > 0 THEN boundary + 1 ELSE boundary
        /\ Leq(atStep(configRange(s), boundary), v)
        /\ v = configRange(s).end \/ v < atStep(configRange(s), boundary + 1)
        /\ connectingSliceCoords[s].sliceParameter = v
        /\ { GeneratrixAngles(s, shared, count),
             GeneratrixAngles(s, shared + count, count) }
               = { {atStep(configRange(s), boundary)}, {v} }

RevealsUpToAssigned(s) == RevealsUpTo(s, lastCall.value)

\* The last call handed s a value of its range and s ran its update: torus
\* and cylinder update on every value of their range, the cone only on one
\* that differs from the value it holds.
Accepted(s) ==
    /\ SetterCalled
    /\ includes(configRange(s), lastCall.value)
    /\ s = "cone" => ~WroteNothingOf("cone")

C7_ConnectingSliceIsOneWedge ==
    \A s \in Solids :
        /\ Len(connectingSliceCoords[s].vertices)
               = sharedVertexCount(s) + 2 * maxVertexCount(s)
        /\ Len(connectingSliceCoords[s].vertices)
               = Len(NewConnectingSliceCoords(s))

\* The connecting slices were rewritten with every whole slice of the torus
\* and of the cylinder revealed.
C7_Witness ==
    /\ SetterCalled
    /\ \A s \in {"torus", "cylinder"} :
          /\ ~WroteNothingOf(s)
          /\ geometry[s]["surface"].endSliceIndex
                 = configRange(s).stepCount
    /\ geometry["cone"]["surface"].endSliceIndex > 0
    /\ ~WroteNothingOf("cone")

\* The vertices the cone's triangle of slice sliceIdx is drawn from in buf.
Triangle(buf, sliceIdx) ==
    [n \in 1 .. 3 |-> Slot(buf, calculateVertexIndices(sliceIdx)[n])]

\* The sense in which a cone triangle turns about the apex: the base point
\* moves one way along the base circle as the angle grows, so the sense is
\* the sign of the sweep from the triangle's third vertex to its second.
Winding(t) == Sign(fsub(t[2].at, t[3].at))

\* C8: after an accepted cone set to v the connecting slice holds the
\* generatrix at the last whole step first and the generatrix at v second,
\* and its triangle turns the way the triangles of the main mesh do.
C8_ConeWedgeArrangedAsMainMesh ==
    Accepted("cone") =>
        /\ GeneratrixAngles("cone", 0, 2)
               = { atStep(configRange("cone"),
                          geometry["cone"]["surface"].endSliceIndex) }
        /\ GeneratrixAngles("cone", 2, 2) = { lastCall.value }
        /\ lastCall.value # atStep(configRange("cone"),
                                   geometry["cone"]["surface"].endSliceIndex)
               => Winding(Triangle(connectingSliceCoords["cone"].vertices, 0))
                      = Winding(Triangle(coneCoords, 0))

\* The solids that position labels, and the labels each positions.
LabelledSolids == {"cone", "baseCircle", "transverseCircle"}

LabelsOf(x) ==
    CASE x = "cone" -> {"ptT"}
      [] x = "baseCircle" -> {"ptA", "ptO", "ptP", "ptQ"}
      [] x = "transverseCircle" -> {"ptR", "ptS"}

\* Entry n of the call's writes is x positioning one of its labels.
PositionsLabel(x, n) ==
    /\ n \in DOMAIN writes
    /\ writes[n][1] \in LabelsOf(x)
    /\ writes[n][2] = "position"

\* The points the labels that move with the angle are anchored to.
Anchors ==
    [ ptT |-> cone.ptT, ptP |-> baseCircle.ptP, ptQ |-> baseCircle.ptQ,
      ptR |-> transverseCircle.ptR, ptS |-> transverseCircle.diameterEnd ]

\* C9: in a call in which a solid positions its labels, every write to that
\* solid's draw ranges, connecting slice and lines comes before the first
\* label is positioned, its lines were written, and the labels are placed at
\* the anchor points calculated for the new value.
C9_LabelsAfterGeometry ==
    \A x \in LabelledSolids :
        (\E n \in DOMAIN writes : PositionsLabel(x, n)) =>
            /\ \A m, n \in DOMAIN writes :
                   (writes[m][1] = x /\ PositionsLabel(x, n)) => m < n
            /\ \E m \in DOMAIN writes : writes[m][1] = x
            /\ \A l \in LabelsOf(x) \cap DOMAIN Anchors :
                   /\ labels[l].position.anchor = Anchors[l]
                   /\ Anchors[l].at = lastCall.value

\* One call in which the cone, the base circle and the transverse circle
\* all took the value and positioned their labels.
C9_Witness ==
    /\ SetterCalled
    /\ Accepted("cone")
    /\ \A x \in LabelledSolids :
          \E m, n \in DOMAIN writes : writes[m][1] = x /\ PositionsLabel(x, n)

(***************************************************************************)
(* Properties of the value ranges                                          *)
(***************************************************************************)
\* C10: for every range and every step index k of it, the last included
\* step of the value atStep(k) is k.
C10_LastIncludedOfAtStep == rangePc = "done" => testIdx = testStepIdx

\* C11: for every range as constructed, subclasses included, atStep(0) is
\* the range's start and atStep(stepCount) is its end.
C11_AtStepReachesStartAndEnd ==
    (rangePc # "atStep" /\ testSetStartEnd = << >>) =>
        /\ testStepIdx = 0 => testValue = testRange.start
        /\ testStepIdx = testRange.stepCount => testValue = testRange.end

\* C12: after setStartEnd(s, e) on a mutable range, atStep(0) is s and
\* atStep(stepCount) is e, the step count being what it was.
C12_SetStartEndMovesTheSteps ==
    (rangePc # "atStep" /\ testSetStartEnd # << >>) =>
        /\ testStepIdx = 0 => testValue = testSetStartEnd[1]
        /\ testStepIdx = testRange.stepCount => testValue = testSetStartEnd[2]

(***************************************************************************)
(* Properties of the cameras                                               *)
(***************************************************************************)
\* C13: for both kinds of camera, projecting the world point that
\* projectionToWorld returns for a point q of the projection plane gives q.
C13_ProjectionToWorldInvertsProject ==
    cameraPc = "done" => cameraProjected = cameraQ

(***************************************************************************)
(* Properties of the elliptical arc projector                              *)
(***************************************************************************)
\* C14: the projector never throws, whatever the ellipse and the camera.
C14_ProjectorNeverThrows == arcPc # "threw"

\* The mutable objects a parameter set holds by reference.
ParameterObjects(p) ==
    {p.origin, p.plane.id, p.plane.xHat, p.plane.yHat, p.circularAngle_rad}

\* C15: a projection leaves its input parameters as they were, and the output
\* it returns holds no object the input holds, on every path.
C15_ProjectionNeverAliases ==
    /\ Held(arcHeap, arcConfig) = arcBefore
    /\ arcPc = "returned" =>
          ParameterObjects(arcCalculated) \cap ParameterObjects(arcConfig) = {}

\* A non-perspective projection has returned, with a range it allocated and an
\* origin that differs from the input's.
C15_Witness ==
    /\ arcPc = "returned"
    /\ arcCalculated.circularAngle_rad = ClonedRange
    /\ arcHeap[arcCalculated.origin] # arcHeap[arcConfig.origin]

(***************************************************************************)
(* Properties of the matrix operations                                     *)
(***************************************************************************)
\* The operands of the operation called do not fit: the inner dimensions of a
\* product or the dimensions of its result differ, or the terms of a sum have
\* different dimensions.
IncompatibleDimensions ==
    IF matrixOp \in {"multiply", "dot"}
    THEN \/ matrixThis.columnCount # matrixArg.rowCount
         \/ matrixThis.rowCount # matrixOut.rowCount
         \/ matrixArg.columnCount # matrixOut.columnCount
    ELSE matrixOp = "add" /\ (\/ matrixThis.rowCount # matrixArg.rowCount
                              \/ matrixThis.columnCount # matrixArg.columnCount)

\* C16: a matrix operation called with operands of incompatible dimensions
\* throws; it never returns a result.
C16_IncompatibleDimensionsThrow ==
    (matrixPc \in {"returned", "threw"} /\ IncompatibleDimensions) => matrixPc = "threw"

\* The determinant of the Matrix2 that invert was called on.
Determinant ==
    fsub(fmul(getElement(matrixThis, 0, 0), getElement(matrixThis, 1, 1)),
         fmul(getElement(matrixThis, 0, 1), getElement(matrixThis, 1, 0)))

\* C20: invert replaces a non-singular Matrix2, symmetric or not, by its
\* inverse: the result times the original matrix is the identity.  The
\* determinants taken are 1, 2 and 4 and their negatives, for which the
\* elements of the inverse are exact.
C20_InvertGivesInverse ==
    (/\ matrixOp = "invert"
     /\ matrixPc = "returned"
     /\ MathAbs(Determinant) \in {Num(1), Num(2), Num(4)})
    => multiply(rowsOf(matrixOut), rowsOf(matrixThis)) = << << One, 0 >>, << 0, One >> >>

(***************************************************************************)
(* Properties of Color                                                     *)
(***************************************************************************)
\* s is '#' followed by exactly 3, 4, 6 or 8 hexadecimal digits.
WellFormed(s) ==
    /\ Len(s) \in {4, 5, 7, 9}
    /\ s[1] = "#"
    /\ \A i \in 2 .. Len(s) : DigitValue(s[i]) >= 0

\* C17: fromCssColor throws for every malformed string; it returns a colour
\* only for '#' followed by 3, 4, 6 or 8 hexadecimal digits.
C17_MalformedColorThrows ==
    (colorPc \in {"toCssHex", "returned", "threw"} /\ ~WellFormed(colorSpec))
    => colorPc = "threw"

\* s is '#rrggbb' or '#rrggbbaa' in lower-case digits.
LowerCaseLong(s) ==
    /\ Len(s) \in {7, 9}
    /\ s[1] = "#"
    /\ \A i \in 2 .. Len(s) : \E v \in 1 .. 16 : HexDigits[v] = s[i]

\* C18: for a lower-case '#rrggbb' or '#rrggbbaa', toCssHex of the colour
\* fromCssColor returns is the string itself.
C18_CssHexRoundTrip ==
    (colorPc = "returned" /\ LowerCaseLong(colorSpec)) => cssHex = colorSpec

(***************************************************************************)
(* Properties of the label offsets                                         *)
(***************************************************************************)
\* The horizontal offset updateLabelPositions gives to ptT for the angle v.
PtTOffsetAt(v) == LabelOffsets(fmul(fdiv(v, PI), Num(2))).ptT

\* The setter was called with v, an angle from 0 to PI/2.
SweptTo(call) ==
    /\ call.op = "angleOapCompliment_rad"
    /\ Geq(call.value, 0)
    /\ Leq(call.value, HalfPI)

\* C19: as the shared angle goes from 0 to PI/2, the horizontal offset of
\* ptT moves one way only, from its value at 0 to its value at PI/2: when
\* the angle is set to a greater one, the offset does not move against that
\* direction.
C19_PtTOffsetIsMonotone ==
    [][(SweptTo(lastCall) /\ SweptTo(lastCall') /\ lastCall.value <= lastCall'.value)
       => /\ PtTOffsetAt(0) <= PtTOffsetAt(HalfPI)
             => labels["ptT"].relativeOffset <= labels'["ptT"].relativeOffset
          /\ PtTOffsetAt(0) >= PtTOffsetAt(HalfPI)
             => labels["ptT"].relativeOffset >= labels'["ptT"].relativeOffset]_vars

(***************************************************************************)
(* Properties of the buffers                                               *)
(***************************************************************************)
\* The slots of 0 .. length - 1.
Inside(slots, length) == slots \subseteq 0 .. length - 1

\* What the constructors write: the vertices of each solid and of its
\* connecting slice, and the indices of the surface and the wireframe of
\* both.
ConstructionWritesInside ==
    \A s \in Solids :
        /\ Inside(calculateVerticesWrites(s), vertexCount(s))
        /\ Inside(connectingCalculateVerticesWrites(s),
                  connectingVertexCount(s))
        /\ \A g \in Geometries :
               /\ Inside(calculateVertexIndicesWrites(s, g,
                                                     calculatedSliceCount(s)),
                         indexedVertexCount(s, g, calculatedSliceCount(s)))
               /\ Inside(calculateVertexIndicesWrites(s, g, 1),
                         indexedVertexCount(s, g, 1))

\* C21: the vertex, normal and index buffers of a solid are allocated during
\* construction only: no update of the sweep angle resizes a buffer, and
\* every write of the construction and of an update lands inside the buffer
\* as constructed.
C21_BuffersAllocatedOnce ==
    /\ ConstructionWritesInside
    /\ \A s \in Solids :
           /\ Len(connectingSliceCoords[s].vertices) = connectingVertexCount(s)
           /\ connectingSliceCoords[s].needsUpdate =>
                  Inside(updateVerticesWrites(s,
                             lastIncludedStepIdx(sliceParameterRange(s),
                                 connectingSliceCoords[s].sliceParameter),
                             connectingSliceCoords[s].sliceParameter,
                             sharedVertexCount(s)),
                         Len(connectingSliceCoords[s].vertices))

\* Every solid's connecting slice has been updated, the torus's to an angle
\* between two steps.
C21_Witness ==
    /\ \A s \in Solids : connectingSliceCoords[s].needsUpdate
    /\ connectingSliceCoords["torus"].sliceParameter = Num(18)

\* C25: from the end of construction on, every index inside the draw range
\* of a surface or wireframe geometry refers to a vertex slot the vertex
\* calculator has computed, never to one that is still as allocated.
C25_DrawnIndicesAreComputed ==
    \A s \in Solids, g \in Geometries :
        drawnVertexSlots(s, g, geometry[s][g].drawStart,
                         geometry[s][g].drawCount)
            \subseteq calculateVerticesWrites(s)

(***************************************************************************)
(* Properties of ProjectionPlaneCamera.project                             *)
(***************************************************************************)
\* The point handed to project lies behind the camera, or nearer to it than
\* minDistanceFromCamera.
NearOrBehind ==
    LET depth == pointFromEyePointZ(camera, cameraWorld)
    IN  depth < 0 \/ Abs(depth) < minDistanceFromCamera

\* C22: ProjectionPlaneCamera.project of a point nearer to the camera than
\* minDistanceFromCamera, or behind the camera, logs a warning, throws
\* nothing, and writes and returns the projection it computed.
C22_NearPointIsWarnedAndProjected ==
    (cameraPc = "projected" /\ NearOrBehind) =>
        /\ cameraWarnings # {}
        /\ cameraProjected = projectPerspective(camera, cameraWorld)

\* A point in front of the camera, nearer than minDistanceFromCamera, has
\* been projected with a warning.
C22_Witness ==
    /\ cameraPc = "projected"
    /\ cameraWarnings = {"too close to the camera"}
    /\ pointFromEyePointZ(camera, cameraWorld) > 0
    /\ ~IsNaN(cameraProjected[1])

(***************************************************************************)
(* Properties of the transverse circle's angle conversions                 *)
(***************************************************************************)
\* C23: toAngleOapCompliment_rad is the inverse of
\* fromAngleOapCompliment_rad: converting an angle of [0, PI/2] and
\* converting the result back gives the angle.
C23_ToInvertsFrom ==
    (anglePc = "done" /\ oapCompliment >= 0 /\ oapCompliment <= fdiv(PI, Num(2)))
        => oapComplimentBack = oapCompliment

(***************************************************************************)
(* Properties of the footnotes                                             *)
(***************************************************************************)
\* The indices of the footmarks that are in view.
InView ==
    {i \in 0 .. Len(bodyFootmarks) - 1 :
        LET mark == bodyFootmarks[i + 1]
        IN  /\ getOffsetFromElementTop(mark) + offsetHeight(mark) >= viewY[1]
            /\ getOffsetFromElementTop(mark) <= viewY[2]}

\* The footmarks are those of footnotes in the order of the page.
SortedByPosition ==
    \A i \in 1 .. Len(bodyFootmarks) :
        /\ bodyFootmarks[i] # undefined
        /\ \A j \in i + 1 .. Len(bodyFootmarks) :
               /\ bodyFootmarks[j] # undefined
               /\ bodyFootmarks[i][2] < bodyFootmarks[j][2]

\* C24: for footmarks sorted by vertical position, getFootmarkInViewStartIdx
\* returns the smallest index of a footmark in view, or -1 when none is in
\* view.
C24_FirstFootmarkInView ==
    (footnotePc = "scrolled" /\ SortedByPosition) =>
        footmarkInViewStartIdx =
            IF InView = {} THEN -1
            ELSE CHOOSE i \in InView : \A j \in InView : i <= j

\* C29: after any sequence of additions and removals of body footmarks and
\* footnotes, every ref object that is still registered resolves to its
\* own element: a removal never makes another ref object resolve to a
\* different entry or to none.
C29_RefObjectsKeepTheirElement ==
    \A r \in FootnoteNumbers :
        /\ bodyFootmarkRefs[r] >= 0 =>
               current(Registry(bodyFootmarks, bodyFootmarkRefs), r)
                   = << "footmark", r >>
        /\ footnoteRefs[r] >= 0 =>
               current(Registry(footnotes, footnoteRefs), r)
                   = << "footnote", r >>

(***************************************************************************)
(* Properties of the scene updater and the renderer                        *)
(***************************************************************************)
\* C26: whenever the ArchytasSceneUpdater is initialized, the scene objects
\* of its model are in the scene of the updater's current renderer, and that
\* renderer has not been destroyed; detaching and re-attaching the DOM
\* elements does not change this.
C26_ModelIsInTheCurrentScene ==
    initialized =>
        /\ renderer # 0
        /\ renderers[renderer].attached
        /\ model # null
        /\ sceneRenderer(model) = renderer
        /\ SceneObjects \subseteq renderers[renderer].scene

\* C27: whatever animate and unanimate calls and animation frames there
\* have been, at most one render loop of a renderer keeps requesting
\* frames: while animated, every requested renderFrame is such a loop.
C27_AtMostOneRenderLoop ==
    \A i \in DOMAIN renderers :
        renderers[i].animated => renderers[i].frameRequests <= 1

(***************************************************************************)
(* Properties of the colour theme updater                                  *)
(***************************************************************************)
\* C28: once handleUserSelect has been called, a change of the OS colour
\* scheme neither changes the theme classes of document.body nor calls a
\* theme change listener.
C28_OsChangeAfterUserSelect ==
    [][(userHasSelected /\ themeLastCall' = "osChange") =>
           bodyClassList' = bodyClassList /\ notified' = << >>]_vars

\* The OS has changed to the scheme the user did not select, while the
\* updater and a theme change listener were listening.
C28_Witness ==
    /\ themeLastCall = "osChange"
    /\ userHasSelected
    /\ userSelectedTheme = << "string", "dark" >>
    /\ osLight
    /\ lightModeMediaQuery = << "listeners", {"handleDarkModeOsChange"} >>
    /\ themeChangeListeners # << >>
    /\ bodyClassList = {"dark-theme"}

(***************************************************************************)
(* Properties of MatrixColumnAsVector                                      *)
(***************************************************************************)
\* C30: on a view onto column c of a matrix, getComponent(i) after
\* setComponent(i, v) returns v, and the write leaves every element of the
\* matrix outside column c as it was, adding none.
C30_SetThenGetOnAColumn ==
    viewPc = "got" =>
        /\ viewGot = viewSet[2]
        /\ Len(viewMatrix.components) = Len(viewBefore.components)
        /\ \A rowIndex \in 0 .. viewMatrix.rowCount - 1 :
               \A columnIndex \in 0 .. viewMatrix.columnCount - 1 :
                   columnIndex # viewColumnIdx =>
                       getElement(viewMatrix, rowIndex, columnIndex)
                           = getElement(viewBefore, rowIndex, columnIndex)

====
